---- MODULE Spec2Model ----
(***************************************************************************)
(* A model of jbrower2/openapi-typescript: the schema-to-runtime-type      *)
(* resolver (runtime-type.ts), the Import Set (imports.ts), Identifier     *)
(* (identifier.ts), the operation extractor and the api and client        *)
(* emitters (index.ts) and the run-time combinators of the emitted         *)
(* type-utils library (static.ts, typeUtils).                              *)
(*                                                                         *)
(* Text is a sequence of string chunks.  A chunk is either one character   *)
(* (all data-derived text: names, keys, JSON strings) or a literal the     *)
(* code writes as a whole ("ReadonlyArray<", ".items").                    *)
(***************************************************************************)
EXTENDS Integers, Sequences, FiniteSets, TLC

VARIABLES
    pc,        \* position of the generator / of the generated decoder
    mode,      \* "api" | "client": process.argv mode
    schemas,   \* components.schemas of the document, in document order
    models,    \* the props of the emitted object model files, by model name
    enumTypes, \* the registry of the names classified as string enums
    schema,    \* the schema node handed to getRuntimeType
    context,   \* the resolve-time context string
    imports,   \* the file's Import Set
    desc,      \* what getRuntimeType returned (or the error it threw)
    position,  \* which descriptor thunk was called: fromJson, fromJsonParam, toJson
    code,      \* what the thunk returned: the generated expression (or its error)
    path,      \* the run-time context array handed to the generated expression
    input,     \* the value handed to the generated expression at run time
    outcome,   \* the TypeTestResult of the run
    paths,     \* the `paths` object of the document, in document order
    operations,\* operationsByTag (or the error thrown while it was filled)
    emitted,   \* the api or client classes written so far (or the error thrown)
    call,      \* the last call made on the Import Set or on Identifier, and its result
    rendered,  \* the text last rendered (Imports.toString, StringBuilder.toString)
    dir,       \* the output directory: the files in it and its hash file
    log        \* what was done so far, in order: the calls on the Import Set, the runs
               \* of main, the steps of a route handler

vars == <<pc, mode, schemas, models, enumTypes, schema, context, imports, desc, position, code,
          path, input, outcome, paths, operations, emitted, call, rendered, dir, log>>

(***************************************************************************)
(* Bounds of the model.                                                    *)
(***************************************************************************)
\* the longest array and the largest object among the run-time inputs
MaxElems == 2
\* the deepest nesting of array and map schemas among the resolver's inputs
MaxDepth == 2
\* the most branches of a oneOf schema among the resolver's inputs
MaxBranches == 2
\* the most registering calls made on one Import Set
MaxCalls == 2
\* the longest raw name handed to Identifier
MaxName == 3
\* the most runs of the generator on one output directory
MaxRuns == 2
\* the most parameters an operation of a route handler declares
MaxParams == 2

(***************************************************************************)
(* Text helpers.                                                           *)
(***************************************************************************)
UpperLetters == <<"A","B","C","D","E","F","G","H","I","J","K","L","M",
                  "N","O","P","Q","R","S","T","U","V","W","X","Y","Z">>
LowerLetters == <<"a","b","c","d","e","f","g","h","i","j","k","l","m",
                  "n","o","p","q","r","s","t","u","v","w","x","y","z">>
Digits == <<"0","1","2","3","4","5","6","7","8","9">>

Range(f) == {f[i] : i \in DOMAIN f}

IsUpper(c) == c \in Range(UpperLetters)
IsDigit(c) == c \in Range(Digits)

\* \w of a JavaScript regular expression
IsWordChar(c) == IsUpper(c) \/ c \in Range(LowerLetters) \/ IsDigit(c) \/ c = "_"

IndexOf(seq, c) == CHOOSE i \in DOMAIN seq : seq[i] = c

CharToLower(c) == IF IsUpper(c) THEN LowerLetters[IndexOf(UpperLetters, c)] ELSE c
CharToUpper(c) == IF c \in Range(LowerLetters) THEN UpperLetters[IndexOf(LowerLetters, c)] ELSE c

\* String.prototype.toLowerCase
ToLowerCase(s) == [i \in DOMAIN s |-> CharToLower(s[i])]

\* Number.prototype.toString of a small non-negative integer
NumToText(n) == IF n < 10 THEN <<Digits[n + 1]>>
                ELSE <<Digits[(n \div 10) + 1], Digits[(n % 10) + 1]>>

RECURSIVE Join(_, _)
\* Array.prototype.join
Join(parts, sep) ==
    IF parts = <<>> THEN <<>>
    ELSE IF Len(parts) = 1 THEN parts[1]
    ELSE parts[1] \o sep \o Join(Tail(parts), sep)

\* the words that the generator writes as a whole: folders, module paths,
\* and the names and the prefixes of names it imports
Words ==
    {"..", "../", "./", "BaseApi", "BaseClient", "BigNumber", "ClientConfig",
     "DateTime", "Express", "Request", "Response", "UrlBuilder", "and", "api",
     "base-api", "base-client", "bignumber.js", "client", "express", "luxon", "model",
     "opt", "or", "print", "printArray", "printMap", "printModelObject", "success",
     "test", "testArray", "testBigInteger", "testBigIntegerString", "testBigNumber",
     "testBigNumberString", "testBoolean", "testBooleanString", "testDateString",
     "testDateTimeString", "testEmail", "testInteger", "testIntegerString", "testMap",
     "testModelObject", "testNumber", "testNumberString", "testOneOf",
     "testParamArray", "testString", "testStringLength", "testType", "testUuid",
     "type-utils", "validate", "values"}

\* a word by its characters
Spell(word) ==
    CASE word = ".." -> <<".", ".">>
      [] word = "../" -> <<".", ".", "/">>
      [] word = "./" -> <<".", "/">>
      [] word = "BaseApi" -> <<"B", "a", "s", "e", "A", "p", "i">>
      [] word = "BaseClient" -> <<"B", "a", "s", "e", "C", "l", "i", "e", "n", "t">>
      [] word = "BigNumber" -> <<"B", "i", "g", "N", "u", "m", "b", "e", "r">>
      [] word = "ClientConfig" -> <<"C", "l", "i", "e", "n", "t", "C", "o", "n", "f", "i", "g">>
      [] word = "DateTime" -> <<"D", "a", "t", "e", "T", "i", "m", "e">>
      [] word = "Express" -> <<"E", "x", "p", "r", "e", "s", "s">>
      [] word = "Request" -> <<"R", "e", "q", "u", "e", "s", "t">>
      [] word = "Response" -> <<"R", "e", "s", "p", "o", "n", "s", "e">>
      [] word = "UrlBuilder" -> <<"U", "r", "l", "B", "u", "i", "l", "d", "e", "r">>
      [] word = "and" -> <<"a", "n", "d">>
      [] word = "api" -> <<"a", "p", "i">>
      [] word = "base-api" -> <<"b", "a", "s", "e", "-", "a", "p", "i">>
      [] word = "base-client" -> <<"b", "a", "s", "e", "-", "c", "l", "i", "e", "n", "t">>
      [] word = "bignumber.js" -> <<"b", "i", "g", "n", "u", "m", "b", "e", "r", ".", "j", "s">>
      [] word = "client" -> <<"c", "l", "i", "e", "n", "t">>
      [] word = "express" -> <<"e", "x", "p", "r", "e", "s", "s">>
      [] word = "luxon" -> <<"l", "u", "x", "o", "n">>
      [] word = "model" -> <<"m", "o", "d", "e", "l">>
      [] word = "opt" -> <<"o", "p", "t">>
      [] word = "or" -> <<"o", "r">>
      [] word = "print" -> <<"p", "r", "i", "n", "t">>
      [] word = "printArray" -> <<"p", "r", "i", "n", "t", "A", "r", "r", "a", "y">>
      [] word = "printMap" -> <<"p", "r", "i", "n", "t", "M", "a", "p">>
      [] word = "printModelObject" -> <<"p", "r", "i", "n", "t", "M", "o", "d", "e", "l", "O", "b", "j", "e", "c", "t">>
      [] word = "success" -> <<"s", "u", "c", "c", "e", "s", "s">>
      [] word = "test" -> <<"t", "e", "s", "t">>
      [] word = "testArray" -> <<"t", "e", "s", "t", "A", "r", "r", "a", "y">>
      [] word = "testBigInteger" -> <<"t", "e", "s", "t", "B", "i", "g", "I", "n", "t", "e", "g", "e", "r">>
      [] word = "testBigIntegerString" -> <<"t", "e", "s", "t", "B", "i", "g", "I", "n", "t", "e", "g", "e", "r", "S", "t", "r", "i", "n", "g">>
      [] word = "testBigNumber" -> <<"t", "e", "s", "t", "B", "i", "g", "N", "u", "m", "b", "e", "r">>
      [] word = "testBigNumberString" -> <<"t", "e", "s", "t", "B", "i", "g", "N", "u", "m", "b", "e", "r", "S", "t", "r", "i", "n", "g">>
      [] word = "testBoolean" -> <<"t", "e", "s", "t", "B", "o", "o", "l", "e", "a", "n">>
      [] word = "testBooleanString" -> <<"t", "e", "s", "t", "B", "o", "o", "l", "e", "a", "n", "S", "t", "r", "i", "n", "g">>
      [] word = "testDateString" -> <<"t", "e", "s", "t", "D", "a", "t", "e", "S", "t", "r", "i", "n", "g">>
      [] word = "testDateTimeString" -> <<"t", "e", "s", "t", "D", "a", "t", "e", "T", "i", "m", "e", "S", "t", "r", "i", "n", "g">>
      [] word = "testEmail" -> <<"t", "e", "s", "t", "E", "m", "a", "i", "l">>
      [] word = "testInteger" -> <<"t", "e", "s", "t", "I", "n", "t", "e", "g", "e", "r">>
      [] word = "testIntegerString" -> <<"t", "e", "s", "t", "I", "n", "t", "e", "g", "e", "r", "S", "t", "r", "i", "n", "g">>
      [] word = "testMap" -> <<"t", "e", "s", "t", "M", "a", "p">>
      [] word = "testModelObject" -> <<"t", "e", "s", "t", "M", "o", "d", "e", "l", "O", "b", "j", "e", "c", "t">>
      [] word = "testNumber" -> <<"t", "e", "s", "t", "N", "u", "m", "b", "e", "r">>
      [] word = "testNumberString" -> <<"t", "e", "s", "t", "N", "u", "m", "b", "e", "r", "S", "t", "r", "i", "n", "g">>
      [] word = "testOneOf" -> <<"t", "e", "s", "t", "O", "n", "e", "O", "f">>
      [] word = "testParamArray" -> <<"t", "e", "s", "t", "P", "a", "r", "a", "m", "A", "r", "r", "a", "y">>
      [] word = "testString" -> <<"t", "e", "s", "t", "S", "t", "r", "i", "n", "g">>
      [] word = "testStringLength" -> <<"t", "e", "s", "t", "S", "t", "r", "i", "n", "g", "L", "e", "n", "g", "t", "h">>
      [] word = "testType" -> <<"t", "e", "s", "t", "T", "y", "p", "e">>
      [] word = "testUuid" -> <<"t", "e", "s", "t", "U", "u", "i", "d">>
      [] word = "type-utils" -> <<"t", "y", "p", "e", "-", "u", "t", "i", "l", "s">>
      [] word = "validate" -> <<"v", "a", "l", "i", "d", "a", "t", "e">>
      [] word = "values" -> <<"v", "a", "l", "u", "e", "s">>

Spelling == [word \in Words |-> Spell(word)]

\* a text by its characters
Chars(s) == Join([k \in DOMAIN s |-> IF s[k] \in Words THEN Spelling[s[k]] ELSE <<s[k]>>], <<>>)

\* a comparison by code unit, in place of localeCompare
CodeUnitCompare(a, b) ==
    LET order == <<"-", ".", "/">> \o Digits \o UpperLetters \o <<"_">> \o LowerLetters
        x == [k \in DOMAIN Chars(a) |-> IndexOf(order, Chars(a)[k])]
        y == [k \in DOMAIN Chars(b) |-> IndexOf(order, Chars(b)[k])]
    IN \E k \in 1..(Len(x) + 1) :
          /\ k <= Len(y)
          /\ \A l \in 1..(k - 1) : x[l] = y[l]
          /\ k > Len(x) \/ x[k] < y[k]

\* a.localeCompare(b) < 0 for texts of letters, digits and _ - . / : the
\* characters are compared in the order _ - . / 0..9 a..z without regard to
\* case, and texts that differ in case only by the case of their letters,
\* lower case first
localeCompare(a, b) ==
    LET order == <<"_", "-", ".", "/">> \o Digits \o LowerLetters
        less(x, y) == \E k \in 1..(Len(x) + 1) :
                         /\ k <= Len(y)
                         /\ \A l \in 1..(k - 1) : x[l] = y[l]
                         /\ k > Len(x) \/ x[k] < y[k]
        primary(s) == [k \in DOMAIN s |-> IndexOf(order, CharToLower(s[k]))]
        case(s) == [k \in DOMAIN s |-> IF IsUpper(s[k]) THEN 1 ELSE 0]
    IN \/ less(primary(Chars(a)), primary(Chars(b)))
       \/ /\ primary(Chars(a)) = primary(Chars(b))
          /\ less(case(Chars(a)), case(Chars(b)))

RECURSIVE Sort(_)
\* Array.prototype.sort((a, b) => a.localeCompare(b)) on texts
Sort(texts) ==
    IF texts = <<>> THEN <<>>
    ELSE LET rest == Sort(SubSeq(texts, 1, Len(texts) - 1))
             last == texts[Len(texts)]
             n == Cardinality({k \in DOMAIN rest : ~localeCompare(last, rest[k])})
         IN SubSeq(rest, 1, n) \o <<last>> \o SubSeq(rest, n + 1, Len(rest))

(***************************************************************************)
(* Identifier (identifier.ts).                                             *)
(***************************************************************************)
\* string-utils capitalize: `${s[0].toUpperCase()}${s.substring(1)}` (no
\* word of the model is empty)
capitalize(s) == <<CharToUpper(s[1])>> \o Tail(s)

RECURSIVE SplitCamelFrom(_, _, _)
\* s.split(/(?<=[^A-Z])(?=[A-Z])/): a cut before every upper-case letter that
\* follows a character that is not an upper-case letter.
SplitCamelFrom(s, i, cur) ==
    IF i > Len(s) THEN <<cur>>
    ELSE IF i > 1 /\ ~IsUpper(s[i - 1]) /\ IsUpper(s[i])
         THEN <<cur>> \o SplitCamelFrom(s, i + 1, <<s[i]>>)
         ELSE SplitCamelFrom(s, i + 1, Append(cur, s[i]))

\* no Identifier: capitalize read s[0] of an empty word, which is undefined,
\* and the call of toUpperCase on it threw a TypeError
NoIdentifier ==
    [lowerCamel |-> <<>>, upperCamel |-> <<>>, display |-> <<>>, kebab |-> <<>>, threw |-> TRUE]

RECURSIVE IdentifierOf(_)
\* the private constructor: the four casings of a word list
IdentifierOf(words) ==
    IF words = <<>>
    THEN [lowerCamel |-> <<>>, upperCamel |-> <<>>, display |-> <<>>, kebab |-> <<>>,
          threw |-> FALSE]
    ELSE IF \E k \in DOMAIN words : words[k] = <<>> THEN NoIdentifier
    ELSE LET n == Len(words)
             init == IdentifierOf(SubSeq(words, 1, n - 1))
             word == words[n]
             lower == ToLowerCase(word)
             capital == capitalize(lower)
         IN IF n > 1
            THEN [lowerCamel |-> init.lowerCamel \o capital,
                  upperCamel |-> init.upperCamel \o capital,
                  display |-> init.display \o <<" ">> \o word,
                  kebab |-> init.kebab \o <<"-">> \o lower,
                  threw |-> FALSE]
            ELSE [lowerCamel |-> lower,
                  upperCamel |-> capital,
                  display |-> word,
                  kebab |-> lower,
                  threw |-> FALSE]

\* white space, of which the names of the model have the space only
IsSpace(c) == c = " "

RECURSIVE trim(_)
\* String.prototype.trim
trim(s) ==
    IF s = <<>> THEN s
    ELSE IF IsSpace(s[1]) THEN trim(Tail(s))
    ELSE IF IsSpace(s[Len(s)]) THEN trim(SubSeq(s, 1, Len(s) - 1))
    ELSE s

RECURSIVE SplitWordsFrom(_, _, _)
\* s.split(/\s+/): a cut at every run of white space, the run left out
SplitWordsFrom(s, i, cur) ==
    IF i > Len(s) THEN <<cur>>
    ELSE IF ~IsSpace(s[i]) THEN SplitWordsFrom(s, i + 1, Append(cur, s[i]))
    ELSE IF i > 1 /\ IsSpace(s[i - 1]) THEN SplitWordsFrom(s, i + 1, cur)
    ELSE <<cur>> \o SplitWordsFrom(s, i + 1, <<>>)

\* Identifier.fromCamel
fromCamel(s) == IdentifierOf(SplitCamelFrom(trim(s), 1, <<>>))

\* Identifier.fromWords
fromWords(s) == IdentifierOf(SplitWordsFrom(trim(s), 1, <<>>))

(***************************************************************************)
(* Import Set (imports.ts).  An Import Set is [folder, files]: the folder  *)
(* of the file it belongs to ("" is `undefined`, the root) and the entries *)
(* [file, def, named] of `this.imports` in the order their keys were       *)
(* inserted: the module path, the default import (<<>> is none, as is the  *)
(* empty name) and the members of the Set `named` in insertion order.      *)
(***************************************************************************)
NewImports(folder) == [folder |-> folder, files |-> <<>>]

\* an addGlobal whose default import is the last one asked for
addGlobalLastWins(imp, file, name, def) ==
    LET found == {k \in DOMAIN imp.files : imp.files[k].file = file}
        i == IF found = {} THEN [file |-> file, def |-> <<>>, named |-> <<>>]
             ELSE imp.files[CHOOSE k \in found : TRUE]
        e == IF def THEN [i EXCEPT !.def = name]
             ELSE [i EXCEPT !.named = IF \E k \in DOMAIN @ : @[k] = name THEN @
                                      ELSE Append(@, name)]
    IN [ok |-> TRUE,
        imports |-> [imp EXCEPT !.files = IF found = {} THEN Append(@, e)
                                          ELSE [@ EXCEPT ![CHOOSE k \in found : TRUE] = e]]]

\* Imports.addGlobal: [ok, imports]; ok = FALSE is the throw
\* `Default import already specified`
addGlobal(imp, file, name, def) ==
    LET found == {k \in DOMAIN imp.files : imp.files[k].file = file}
        i == IF found = {} THEN [file |-> file, def |-> <<>>, named |-> <<>>]
             ELSE imp.files[CHOOSE k \in found : TRUE]
        put(e) == [imp EXCEPT !.files = IF found = {} THEN Append(@, e)
                                        ELSE [@ EXCEPT ![CHOOSE k \in found : TRUE] = e]]
    IN IF ~def
       THEN [ok |-> TRUE,
             imports |-> put([i EXCEPT !.named = IF \E k \in DOMAIN @ : @[k] = name THEN @
                                                 ELSE Append(@, name)])]
       ELSE IF i.def # <<>>
            THEN [ok |-> i.def = name, imports |-> put(i)]
            ELSE [ok |-> TRUE, imports |-> put([i EXCEPT !.def = name])]

\* Imports.addLocal, the relative directory; folder "" is `undefined` (root)
\* a relative path that takes every other folder for a sibling
relativeOfSiblings(own, folder) ==
    IF folder = own THEN <<".">>
    ELSE IF folder = "" THEN <<"..">>
    ELSE <<"../", folder>>

relative(own, folder) ==
    IF folder = own THEN <<".">>
    ELSE IF folder = "" THEN <<"..">>
    ELSE IF own = "" THEN <<"./", folder>>
    ELSE <<"../", folder>>

addLocal(imp, folder, file, name, def) ==
    addGlobal(imp, relative(imp.folder, folder) \o <<"/">> \o file, name, def)

\* Imports.addValidate; never a default import, so it cannot throw
addValidate(imp, name) ==
    addLocal(imp, "", <<"type-utils">>, <<name>>, FALSE).imports

RECURSIVE addValidateAll(_, _)
addValidateAll(imp, names) ==
    IF names = <<>> THEN imp
    ELSE addValidateAll(addValidate(imp, names[1]), Tail(names))

\* a rendering in the order of insertion
toStringUnsorted(imp) ==
    LET def(e) == IF e.def = <<>> THEN <<>>
                  ELSE <<"default as ">> \o e.def
                       \o (IF e.named # <<>> THEN <<", ">> ELSE <<>>)
        statement(e) == <<"import { ">> \o def(e) \o Join(e.named, <<", ">>)
                        \o <<" } from ", "\"">> \o e.file \o <<"\"", ";">>
    IN <<"\n\n">> \o Join([k \in DOMAIN imp.files |-> statement(imp.files[k])], <<>>)
       \o <<"\n\n">>

\* Imports.toString: one statement per entry, the entries sorted by module
\* path, the default import first, then the named imports sorted
toString(imp) ==
    LET entryOf(file) == imp.files[CHOOSE k \in DOMAIN imp.files : imp.files[k].file = file]
        sorted == Sort([k \in DOMAIN imp.files |-> imp.files[k].file])
        def(e) == IF e.def = <<>> THEN <<>>
                  ELSE <<"default as ">> \o e.def
                       \o (IF e.named # <<>> THEN <<", ">> ELSE <<>>)
        statement(e) == <<"import { ">> \o def(e) \o Join(Sort(e.named), <<", ">>)
                        \o <<" } from ", "\"">> \o e.file \o <<"\"", ";">>
    IN <<"\n\n">> \o Join([k \in DOMAIN sorted |-> statement(entryOf(sorted[k]))], <<>>)
       \o <<"\n\n">>

(***************************************************************************)
(* Schema nodes (openapi.ts, OpenAPISchema | OpenAPIReference).  A node is *)
(* a record of the properties the resolver reads; an optional property is  *)
(* a sequence of length 0 (absent) or 1.  `extra` holds the names of the   *)
(* other keys the node carries (description, pattern, nullable, ...).      *)
(***************************************************************************)
NoSchema ==
    [ref |-> <<>>, oneOf |-> <<>>, type |-> "", format |-> "",
     minLength |-> <<>>, maxLength |-> <<>>,
     additionalProperties |-> <<>>, apBoolean |-> "", items |-> <<>>,
     extra |-> {}]

\* Object.keys(schema)
Keys(s) ==
    (IF s.ref # <<>> THEN {"$ref"} ELSE {})
    \cup (IF s.oneOf # <<>> THEN {"oneOf"} ELSE {})
    \cup (IF s.type # "" THEN {"type"} ELSE {})
    \cup (IF s.format # "" THEN {"format"} ELSE {})
    \cup (IF s.minLength # <<>> THEN {"minLength"} ELSE {})
    \cup (IF s.maxLength # <<>> THEN {"maxLength"} ELSE {})
    \cup (IF s.additionalProperties # <<>> \/ s.apBoolean # ""
          THEN {"additionalProperties"} ELSE {})
    \cup (IF s.items # <<>> THEN {"items"} ELSE {})
    \cup s.extra

\* isReference: "$ref" in x
isReference(s) == s.ref # <<>>

\* an optional number that is truthy: present and not 0
Truthy(n) == n # <<>> /\ n[1] # 0

(***************************************************************************)
(* Errors.  A thrown message is recorded by what its text contains: the    *)
(* kind of failure, the schema kind it names, the context string (a        *)
(* sequence of length 0 when the message does not contain the context),    *)
(* the property names and other interpolated text.                         *)
(***************************************************************************)
NoErr == [kind |-> "", what |-> "", context |-> <<>>, props |-> {}, detail |-> <<>>]

Err(kind, what, ctx, props, detail) ==
    [kind |-> kind, what |-> what, context |-> ctx, props |-> props, detail |-> detail]

(***************************************************************************)
(* getRuntimeType (runtime-type.ts), the part that runs when the resolver  *)
(* is called.  The result is [ok, err, imports, typeName]: ok = FALSE is a *)
(* throw, and imports is the Import Set as the call left it.               *)
(***************************************************************************)
Resolved(imp, typeName) ==
    [ok |-> TRUE, err |-> NoErr, imports |-> imp, typeName |-> typeName]

Thrown(imp, err) ==
    [ok |-> FALSE, err |-> err, imports |-> imp, typeName |-> <<>>]

UnexpectedProperties(imp, what, ctx, props) ==
    Thrown(imp, Err("UnexpectedProperties", what, <<ctx>>, props, <<>>))

\* /^#\/components\/schemas\/(\w+)$/ on a $ref given as the chunk before the
\* name followed by the characters of the name
RefPrefix == "#/components/schemas/"

\* a pattern that would accept any name behind the prefix
RefMatchesAnyName(ref) == Len(ref) >= 2 /\ ref[1] = "#/components/schemas/"

RefMatches(ref) ==
    /\ Len(ref) >= 2
    /\ ref[1] = RefPrefix
    /\ \A i \in 2..Len(ref) : IsWordChar(ref[i])

\* a boolean branch that would also delete `pattern`
DeletedKeysWithPattern(branch) ==
    CASE branch = "reference" -> {"$ref"}
      [] branch = "oneOf" -> {"oneOf"}
      [] branch = "string" -> {"description", "type", "format", "minLength", "maxLength"}
      [] branch \in {"date", "big"} -> {"description", "type", "format"}
      [] branch = "object" -> {"description", "type", "additionalProperties"}
      [] branch = "array" -> {"description", "type", "items"}
      [] branch = "boolean" -> {"description", "type", "pattern"}
      [] OTHER -> {"description", "type"}

\* the keys each branch deletes from props before it looks at what is left
DeletedKeys(branch) ==
    CASE branch = "reference" -> {"$ref"}
      [] branch = "oneOf" -> {"oneOf"}
      [] branch = "string" -> {"description", "type", "format", "minLength", "maxLength"}
      [] branch \in {"date", "big"} -> {"description", "type", "format"}
      [] branch = "object" -> {"description", "type", "additionalProperties"}
      [] branch = "array" -> {"description", "type", "items"}
      [] OTHER -> {"description", "type"}

\* a first case group without `password` and `uuid`
EmailOnlyFormats == {"", "email"}

\* the formats of the first case group of `switch (format)` ("" is undefined)
PlainStringFormats == {"", "email", "password", "uuid"}

\* BIG_NUMBER / BIG_INTEGER, the part before the descriptor is returned
ResolveBig(imp) ==
    LET r == addGlobal(imp, <<"bignumber.js">>, <<"BigNumber">>, TRUE)
    IN IF r.ok THEN Resolved(r.imports, <<"BigNumber">>)
       ELSE Thrown(r.imports, Err("DefaultImportConflict", "", <<>>, {}, <<>>))

\* DATE / DATE_TIME, the part before the descriptor is returned
ResolveDate(imp) ==
    Resolved(addGlobal(imp, <<"luxon">>, <<"DateTime">>, FALSE).imports, <<"DateTime">>)

RECURSIVE getRuntimeType(_, _, _)
RECURSIVE ResolveBranches(_, _, _, _, _)

\* schema.oneOf.map((s, i) => getRuntimeType(s, imports, `${context}.oneOf[${i}]`))
ResolveBranches(branches, i, imp, ctx, names) ==
    IF i > Len(branches)
    THEN [ok |-> TRUE, err |-> NoErr, imports |-> imp, typeNames |-> names]
    ELSE LET r == getRuntimeType(branches[i], imp,
                                 ctx \o <<".oneOf[">> \o NumToText(i - 1) \o <<"]">>)
         IN IF ~r.ok
            THEN [ok |-> FALSE, err |-> r.err, imports |-> r.imports, typeNames |-> names]
            ELSE ResolveBranches(branches, i + 1, r.imports, ctx, Append(names, r.typeName))

ResolveReference(s, imp, ctx) ==
    LET props == Keys(s) \ DeletedKeys("reference")
        ref == s.ref[1]
        ident == fromCamel(Tail(ref))
    IN IF props # {} THEN UnexpectedProperties(imp, "schema reference", ctx, props)
       ELSE IF ~RefMatches(ref) THEN Thrown(imp, Err("MalformedRef", "", <<>>, {}, ref))
       ELSE Resolved(addLocal(imp, "model", ident.kebab, ident.upperCamel, FALSE).imports,
                     ident.upperCamel)

ResolveOneOf(s, imp, ctx) ==
    LET props == Keys(s) \ DeletedKeys("oneOf")
        inner == ResolveBranches(s.oneOf[1], 1, imp, ctx, <<>>)
    IN IF props # {} THEN UnexpectedProperties(imp, "oneOf schema", ctx, props)
       ELSE IF ~inner.ok THEN Thrown(inner.imports, inner.err)
       ELSE Resolved(inner.imports, Join(inner.typeNames, <<" | ">>))

ResolveString(s, imp, ctx) ==
    IF s.format \in PlainStringFormats
    THEN IF Keys(s) \ DeletedKeys("string") # {}
         THEN UnexpectedProperties(imp, "string schema", ctx, Keys(s) \ DeletedKeys("string"))
         ELSE Resolved(imp, <<"string">>)
    ELSE IF s.format = "date"
    THEN IF Keys(s) \ DeletedKeys("date") # {}
         THEN UnexpectedProperties(imp, "date schema", ctx, Keys(s) \ DeletedKeys("date"))
         ELSE ResolveDate(imp)
    ELSE IF s.format = "date-time"
    THEN IF Keys(s) \ DeletedKeys("date") # {}
         THEN UnexpectedProperties(imp, "date-time schema", ctx, Keys(s) \ DeletedKeys("date"))
         ELSE ResolveDate(imp)
    ELSE Thrown(imp, Err("UnexpectedStringFormat", "", <<ctx>>, {}, <<s.format>>))

ResolveBoolean(s, imp, ctx) ==
    IF Keys(s) \ DeletedKeys("boolean") # {}
    THEN UnexpectedProperties(imp, "boolean schema", ctx, Keys(s) \ DeletedKeys("boolean"))
    ELSE Resolved(imp, <<"boolean">>)

ResolveNumber(s, imp, ctx) ==
    LET props == Keys(s) \ (IF s.format = "big" THEN DeletedKeys("big") ELSE DeletedKeys("number"))
    IN IF props # {}
       THEN UnexpectedProperties(imp, IF s.type = "integer" THEN "integer schema"
                                      ELSE "number schema", ctx, props)
       ELSE IF s.format = "big" THEN ResolveBig(imp)
       ELSE Resolved(imp, <<"number">>)

ResolveMap(s, imp, ctx) ==
    LET props == Keys(s) \ DeletedKeys("object")
        inner == getRuntimeType(s.additionalProperties[1], imp,
                                ctx \o <<".additionalProperties">>)
    IN IF props # {} THEN UnexpectedProperties(imp, "map schema", ctx, props)
       ELSE IF s.apBoolean # ""
       THEN Thrown(imp, Err("BooleanAdditionalProperties", "", <<ctx>>, {}, <<s.apBoolean>>))
       ELSE IF s.additionalProperties = <<>>
       THEN Thrown(imp, Err("MissingAdditionalProperties", "", <<ctx>>, {}, <<>>))
       ELSE IF ~inner.ok THEN inner
       ELSE Resolved(inner.imports, <<"ReadonlyMap<string, ">> \o inner.typeName \o <<">">>)

ResolveArray(s, imp, ctx) ==
    LET props == Keys(s) \ DeletedKeys("array")
        inner == getRuntimeType(s.items[1], imp, ctx \o <<".items">>)
    IN IF props # {} THEN UnexpectedProperties(imp, "array schema", ctx, props)
       ELSE IF s.items = <<>>
       THEN Thrown(imp, Err("MissingItems", "", <<ctx>>, {}, <<>>))
       ELSE IF ~inner.ok THEN inner
       ELSE Resolved(inner.imports, <<"ReadonlyArray<">> \o inner.typeName \o <<">">>)

getRuntimeType(s, imp, ctx) ==
    IF isReference(s) THEN ResolveReference(s, imp, ctx)
    ELSE IF s.oneOf # <<>> THEN ResolveOneOf(s, imp, ctx)
    ELSE IF s.type = "string" THEN ResolveString(s, imp, ctx)
    ELSE IF s.type = "boolean" THEN ResolveBoolean(s, imp, ctx)
    ELSE IF s.type \in {"integer", "number"} THEN ResolveNumber(s, imp, ctx)
    ELSE IF s.type = "object" THEN ResolveMap(s, imp, ctx)
    ELSE IF s.type = "array" THEN ResolveArray(s, imp, ctx)
    ELSE Thrown(imp, Err("UnexpectedType", "", <<ctx>>, {}, <<s.type>>))

(***************************************************************************)
(* The descriptor's thunks fromJson(), fromJsonParam(), toJson(): the code *)
(* they generate.  A generated expression is a tree [op, args, name, min,  *)
(* max]: `testArray(testString)` is op "testArray" over one argument.      *)
(* The result of a thunk is [ok, err, imports, expr].                      *)
(***************************************************************************)
Ex(op, args) == [op |-> op, args |-> args, name |-> <<>>, min |-> <<>>, max |-> <<>>]

NoExpr == Ex("", <<>>)

Generated(imp, expr) == [ok |-> TRUE, err |-> NoErr, imports |-> imp, expr |-> expr]

NotGenerated(imp, err) == [ok |-> FALSE, err |-> err, imports |-> imp, expr |-> NoExpr]

Positions == {"fromJson", "fromJsonParam", "toJson"}

\* BOOLEAN, NUMBER, INTEGER, BIG_NUMBER, BIG_INTEGER: toJson is fromJson
PrimitiveThunk(pos, imp, jsonTest, paramTest) ==
    LET name == IF pos = "fromJsonParam" THEN paramTest ELSE jsonTest
    IN Generated(addValidate(imp, name), Ex(name, <<>>))

\* DATE, DATE_TIME: fromJsonParam is fromJson
DateThunk(pos, imp, stringTest, printer) ==
    IF pos = "toJson"
    THEN Generated(addValidateAll(imp, <<"and", "success", "testType">>),
                   Ex("and", <<Ex("testType(DateTime)", <<>>), Ex(printer, <<>>)>>))
    ELSE Generated(addValidate(imp, stringTest), Ex(stringTest, <<>>))

\* an enum descriptor whose toJson would be the identity printer
EnumThunkWithPrinter(pos, imp, ident) ==
    IF pos = "toJson" THEN Generated(addValidate(imp, "success"), Ex("success", <<>>))
    ELSE Generated(addLocal(addValidate(imp, "testOneOf"), "model", ident.kebab,
                            <<"values">> \o ident.upperCamel, FALSE).imports,
                   [Ex("testOneOf", <<>>) EXCEPT !.name = <<"values">> \o ident.upperCamel])

\* the descriptor of a reference to a string enum: one function for all three
EnumThunk(pos, imp, ident) ==
    Generated(addLocal(addValidate(imp, "testOneOf"), "model", ident.kebab,
                       <<"values">> \o ident.upperCamel, FALSE).imports,
              [Ex("testOneOf", <<>>) EXCEPT !.name = <<"values">> \o ident.upperCamel])

\* an object descriptor whose fromJsonParam would be its fromJson
ObjectThunkInParameters(pos, imp, ident, ctx) ==
    LET prefix == IF pos = "toJson" THEN "print" ELSE "test"
    IN Generated(addLocal(imp, "model", ident.kebab, <<prefix>> \o ident.upperCamel,
                          FALSE).imports,
                 [Ex(prefix, <<>>) EXCEPT !.name = ident.upperCamel])

\* the descriptor of any other reference
ObjectThunk(pos, imp, ident, ctx) ==
    IF pos = "fromJsonParam"
    THEN NotGenerated(imp, Err("ReferenceParameter", "", <<ctx>>, {}, <<>>))
    ELSE LET prefix == IF pos = "fromJson" THEN "test" ELSE "print"
             method == <<prefix>> \o ident.upperCamel
         IN Generated(addLocal(imp, "model", ident.kebab, method, FALSE).imports,
                      [Ex(prefix, <<>>) EXCEPT !.name = ident.upperCamel])

ReferenceThunk(pos, s, imp, ctx) ==
    LET ident == fromCamel(Tail(s.ref[1]))
    IN IF ident.upperCamel \in enumTypes THEN EnumThunk(pos, imp, ident)
       ELSE ObjectThunk(pos, imp, ident, ctx)

\* the fromJson of a string schema without a date format (also its
\* fromJsonParam and toJson)
PlainStringThunk(s, imp, ctx) ==
    LET sized == Truthy(s.minLength) \/ Truthy(s.maxLength)
        imp1 == IF sized THEN addValidate(imp, "testStringLength") ELSE imp
        length == IF sized
                  THEN <<[Ex("testStringLength", <<>>)
                          EXCEPT !.min = s.minLength, !.max = s.maxLength]>>
                  ELSE <<>>
        imp2 == IF s.format = "email" THEN addValidate(imp1, "testEmail")
                ELSE IF s.format = "uuid" THEN addValidate(imp1, "testUuid")
                ELSE imp1
        options == IF s.format = "email" THEN Append(length, Ex("testEmail", <<>>))
                   ELSE IF s.format = "uuid" THEN Append(length, Ex("testUuid", <<>>))
                   ELSE length
        imp3 == addValidate(imp2, "testString")
    IN IF s.minLength = <<0>>
       THEN NotGenerated(imp, Err("MinLengthZero", "", <<ctx>>, {}, <<>>))
       ELSE IF s.maxLength = <<0>>
       THEN NotGenerated(imp, Err("MaxLengthZero", "", <<ctx>>, {}, <<>>))
       ELSE IF s.format = "uuid" /\ Truthy(s.minLength)
       THEN NotGenerated(imp1, Err("UuidMinLength", "", <<ctx>>, {}, <<>>))
       ELSE IF s.format = "uuid" /\ Truthy(s.maxLength)
       THEN NotGenerated(imp1, Err("UuidMaxLength", "", <<ctx>>, {}, <<>>))
       ELSE IF options = <<>> THEN Generated(imp3, Ex("testString", <<>>))
       ELSE Generated(addValidate(imp3, "and"),
                      Ex("and", <<Ex("testString", <<>>)>> \o options))

StringThunk(pos, s, imp, ctx) ==
    IF s.format = "date" THEN DateThunk(pos, imp, "testDateString", "toISODate")
    ELSE IF s.format = "date-time"
    THEN DateThunk(pos, imp, "testDateTimeString", "toISO")
    ELSE PlainStringThunk(s, imp, ctx)

NumberThunk(pos, s, imp) ==
    IF s.format = "big"
    THEN IF s.type = "integer"
         THEN PrimitiveThunk(pos, imp, "testBigInteger", "testBigIntegerString")
         ELSE PrimitiveThunk(pos, imp, "testBigNumber", "testBigNumberString")
    ELSE IF s.type = "integer"
         THEN PrimitiveThunk(pos, imp, "testInteger", "testIntegerString")
         ELSE PrimitiveThunk(pos, imp, "testNumber", "testNumberString")

RECURSIVE Thunk(_, _, _, _)
RECURSIVE BranchThunks(_, _, _, _, _, _)

\* inner.map((d) => d.<pos>()) inside the template of a oneOf descriptor
BranchThunks(pos, branches, i, imp, ctx, exprs) ==
    IF i > Len(branches)
    THEN [ok |-> TRUE, err |-> NoErr, imports |-> imp, exprs |-> exprs]
    ELSE LET r == Thunk(pos, branches[i], imp,
                        ctx \o <<".oneOf[">> \o NumToText(i - 1) \o <<"]">>)
         IN IF ~r.ok
            THEN [ok |-> FALSE, err |-> r.err, imports |-> r.imports, exprs |-> exprs]
            ELSE BranchThunks(pos, branches, i + 1, r.imports, ctx, Append(exprs, r.expr))

OneOfThunk(pos, s, imp, ctx) ==
    LET inner == BranchThunks(pos, s.oneOf[1], 1, addValidate(imp, "or"), ctx, <<>>)
    IN IF ~inner.ok THEN NotGenerated(inner.imports, inner.err)
       ELSE Generated(inner.imports, Ex("or", inner.exprs))

MapThunk(pos, s, imp, ctx) ==
    LET wrapper == IF pos = "fromJson" THEN "testMap" ELSE "printMap"
        inner == Thunk(pos, s.additionalProperties[1], addValidate(imp, wrapper),
                       ctx \o <<".additionalProperties">>)
    IN IF pos = "fromJsonParam"
       THEN NotGenerated(imp, Err("MapParameter", "", <<ctx>>, {}, <<>>))
       ELSE IF ~inner.ok THEN inner
       ELSE Generated(inner.imports, Ex(wrapper, <<inner.expr>>))

ArrayThunk(pos, s, imp, ctx) ==
    LET wrapper == IF pos = "fromJson" THEN "testArray"
                   ELSE IF pos = "fromJsonParam" THEN "testParamArray"
                   ELSE "printArray"
        inner == Thunk(pos, s.items[1], addValidate(imp, wrapper), ctx \o <<".items">>)
    IN IF ~inner.ok THEN inner
       ELSE Generated(inner.imports, Ex(wrapper, <<inner.expr>>))

\* the thunk `pos` of the descriptor getRuntimeType(s, imports, ctx) returned
Thunk(pos, s, imp, ctx) ==
    IF isReference(s) THEN ReferenceThunk(pos, s, imp, ctx)
    ELSE IF s.oneOf # <<>> THEN OneOfThunk(pos, s, imp, ctx)
    ELSE IF s.type = "string" THEN StringThunk(pos, s, imp, ctx)
    ELSE IF s.type = "boolean"
    THEN PrimitiveThunk(pos, imp, "testBoolean", "testBooleanString")
    ELSE IF s.type \in {"integer", "number"} THEN NumberThunk(pos, s, imp)
    ELSE IF s.type = "object" THEN MapThunk(pos, s, imp, ctx)
    ELSE ArrayThunk(pos, s, imp, ctx)

(***************************************************************************)
(* Named schemas (components.schemas) and the Model Emitter's use of the   *)
(* resolver (index.ts, writeObjectModel).  A named schema is [type, enum,  *)
(* properties, required]; properties is the ordered list of [name, schema].*)
(***************************************************************************)
EnumSchema(values) ==
    [type |-> "string", enum |-> values, properties |-> <<>>, required |-> {}]

ObjectSchema(properties, required) ==
    [type |-> "object", enum |-> <<>>, properties |-> properties, required |-> required]

\* main, the classification pass: the names pushed on enumTypes
ClassifiedEnums(doc) ==
    {fromCamel(doc[i].name).upperCamel : i \in {j \in DOMAIN doc : doc[j].schema.type = "string"}}

SchemaNamed(name) ==
    schemas[CHOOSE i \in DOMAIN schemas : fromCamel(schemas[i].name).upperCamel = name].schema

RECURSIVE WriteProperties(_, _, _, _, _)
\* the loop of writeObjectModel over Object.entries(objectSchema.properties):
\* per property getRuntimeType, then toJson() for the printer and fromJson()
\* for the validator, each wrapped in opt(...) unless the property is required
WriteProperties(objectName, objectSchema, i, imp, props) ==
    IF i > Len(objectSchema.properties)
    THEN [ok |-> TRUE, err |-> NoErr, imports |-> imp, props |-> props]
    ELSE LET property == objectSchema.properties[i]
             ctx == objectName \o <<".">> \o property.name
             required == property.name \in objectSchema.required
             r == getRuntimeType(property.schema, imp, ctx)
             imp1 == IF required THEN r.imports ELSE addValidate(r.imports, "opt")
             print == Thunk("toJson", property.schema, imp1, ctx)
             test == Thunk("fromJson", property.schema, print.imports, ctx)
             wrap(e) == IF required THEN e ELSE Ex("opt", <<e>>)
         IN IF ~r.ok THEN [ok |-> FALSE, err |-> r.err, imports |-> r.imports, props |-> props]
            ELSE IF ~print.ok
            THEN [ok |-> FALSE, err |-> print.err, imports |-> print.imports, props |-> props]
            ELSE IF ~test.ok
            THEN [ok |-> FALSE, err |-> test.err, imports |-> test.imports, props |-> props]
            ELSE WriteProperties(objectName, objectSchema, i + 1, test.imports,
                     Append(props, [key |-> property.name, required |-> required,
                                    typeName |-> r.typeName,
                                    print |-> wrap(print.expr), test |-> wrap(test.expr)]))

\* writeObjectModel: the properties handed to testModelObject / printModelObject
writeObjectModel(objectName, objectSchema) ==
    WriteProperties(objectName, objectSchema, 1,
                    addValidateAll(NewImports("model"), <<"testModelObject", "printModelObject">>),
                    <<>>)

\* main, the emission pass: the props of the model file of each object schema
writeModels(doc) ==
    LET objects == {i \in DOMAIN doc : doc[i].schema.type = "object"}
        named(i) == fromCamel(doc[i].name).upperCamel
    IN [name \in {named(i) : i \in objects} |->
          writeObjectModel(name, doc[CHOOSE i \in objects : named(i) = name].schema).props]

(***************************************************************************)
(* Run-time values.  One record shape for every JavaScript value the       *)
(* generated code meets: t is the kind ("undefined", "null", "bool",       *)
(* "num" a native number, "str", "arr", "obj" a plain object, "big" a      *)
(* BigNumber, "date" a luxon DateTime, "map" a Map).  A number is n, or    *)
(* n + 1/2 when frac; nan marks NaN and an invalid DateTime.               *)
(***************************************************************************)
VUndefined ==
    [t |-> "undefined", b |-> FALSE, n |-> 0, frac |-> FALSE, nan |-> FALSE,
     s |-> <<>>, elems |-> <<>>, entries |-> <<>>, d |-> <<>>]

VNull == [VUndefined EXCEPT !.t = "null"]
VBool(b) == [VUndefined EXCEPT !.t = "bool", !.b = b]
VNum(n, frac) == [VUndefined EXCEPT !.t = "num", !.n = n, !.frac = frac]
VStr(s) == [VUndefined EXCEPT !.t = "str", !.s = s]
VArr(elems) == [VUndefined EXCEPT !.t = "arr", !.elems = elems]
VObj(entries) == [VUndefined EXCEPT !.t = "obj", !.entries = entries]
VMap(entries) == [VUndefined EXCEPT !.t = "map", !.entries = entries]
VBig(n, frac) == [VUndefined EXCEPT !.t = "big", !.n = n, !.frac = frac]
VBigNaN == [VUndefined EXCEPT !.t = "big", !.nan = TRUE]
\* a DateTime in UTC; d = <<year, month, day, hour, minute, second, millisecond>>
VDate(d) == [VUndefined EXCEPT !.t = "date", !.d = d]
VInvalidDate == [VUndefined EXCEPT !.t = "date", !.nan = TRUE]

Entry(k, v) == [k |-> k, v |-> v]

\* Object.entries(thing): the own enumerable properties.  Those of an array
\* are its indices; those of a BigNumber are its fields s, e, c.
ObjectEntries(v) ==
    IF v.t = "arr" THEN [i \in DOMAIN v.elems |-> Entry(NumToText(i - 1), v.elems[i])]
    ELSE IF v.t = "obj" THEN v.entries
    ELSE IF v.t = "big" /\ v.nan
    THEN <<Entry(<<"s">>, VNull), Entry(<<"e">>, VNull), Entry(<<"c">>, VNull)>>
    ELSE IF v.t = "big"
    THEN <<Entry(<<"s">>, VNum(1, FALSE)), Entry(<<"e">>, VNum(0, FALSE)),
           Entry(<<"c">>, VArr(IF v.frac THEN <<VNum(v.n, FALSE), VNum(5, FALSE)>>
                               ELSE <<VNum(v.n, FALSE)>>))>>
    ELSE <<>>

\* thing[key]
Property(v, key) ==
    LET es == ObjectEntries(v)
    IN IF \E i \in DOMAIN es : es[i].k = key
       THEN es[CHOOSE i \in DOMAIN es : es[i].k = key].v
       ELSE VUndefined

\* isUndefined
isUndefined(v) == v.t \in {"undefined", "null"}

(***************************************************************************)
(* TypeTestResult.  message is the failure text as a sequence of parts:    *)
(* one [expected, path] per `Expected '<path>' to be <expected>` and an    *)
(* OrSeparator per " OR ".  tried is the number of tests the outermost     *)
(* `or` invoked; threw marks an exception instead of a result.             *)
(***************************************************************************)
success(v) ==
    [success |-> TRUE, value |-> v, message |-> <<>>, tried |-> 0, threw |-> FALSE]

failure(message) ==
    [success |-> FALSE, value |-> VUndefined, message |-> message, tried |-> 0,
     threw |-> FALSE]

\* context.join(".")
ContextPath(ctx) == Join(ctx, <<".">>)

OrSeparator == [expected |-> " OR ", path |-> <<>>]

Throws(what) == [failure(<<[expected |-> what, path |-> <<>>]>>) EXCEPT !.threw = TRUE]

\* the context of a test that is called with the value alone: `undefined`,
\* of which context.join, context.length and [...context] are TypeErrors
UndefinedContext == << <<"undefined">> >>

\* failure(`Expected '${context.join(".")}' to be ...`)
Expected(ctx, what) ==
    IF ctx = UndefinedContext THEN Throws("TypeError")
    ELSE failure(<<[expected |-> what, path |-> ContextPath(ctx)]>>)

(***************************************************************************)
(* The emitted type-utils library (static.ts, typeUtils): string tests.    *)
(* A regular expression is the sequence of its one-character elements:     *)
(* a character stands for itself, "." for any character and "[0-9a-f]"     *)
(* for a hex digit under the i flag.  All the patterns are anchored and    *)
(* of fixed length.                                                        *)
(***************************************************************************)
Rep(n, el) == [i \in 1..n |-> el]

ElementMatches(el, c) ==
    IF el = "." THEN TRUE
    ELSE IF el = "[0-9a-f]"
    THEN IsDigit(c) \/ c \in {"a","b","c","d","e","f","A","B","C","D","E","F"}
    ELSE c = el

\* pattern.exec(thing) !== null
RegExpMatches(pattern, s) ==
    Len(s) = Len(pattern) /\ \A i \in DOMAIN s : ElementMatches(pattern[i], s[i])

\* /^(d{4})-(d{2})-(d{2})$/ as the emitted file holds it
DatePattern ==
    Rep(4, "d") \o <<"-">> \o Rep(2, "d") \o <<"-">> \o Rep(2, "d")

\* /^(d{4})-(d{2})-(d{2})T(d{2}):(d{2}):(d{2}).(d{3})Z$/ as the emitted file holds it
DateTimePattern ==
    DatePattern \o <<"T">> \o Rep(2, "d") \o <<":">> \o Rep(2, "d")
    \o <<":">> \o Rep(2, "d") \o <<".">> \o Rep(3, "d") \o <<"Z">>

\* /^[0-9a-f]{12}-[0-9a-f]{4}-[0-9a-f]{4}-[0-9a-f]{4}-[0-9a-f]{8}$/i
UuidPattern ==
    Rep(12, "[0-9a-f]") \o <<"-">> \o Rep(4, "[0-9a-f]") \o <<"-">> \o Rep(4, "[0-9a-f]")
    \o <<"-">> \o Rep(4, "[0-9a-f]") \o <<"-">> \o Rep(8, "[0-9a-f]")

\* EmailValidator.validate (the email-validator package) on the strings of
\* the model: one "@" after a non-empty local part, a dot inside the domain
EmailValidate(s) ==
    /\ Cardinality({i \in DOMAIN s : s[i] = "@"}) = 1
    /\ \E i \in DOMAIN s :
          /\ s[i] = "@" /\ i > 1
          /\ \E j \in DOMAIN s : j > i + 1 /\ s[j] = "." /\ j + 2 <= Len(s)
    /\ \A i \in DOMAIN s : IsWordChar(s[i]) \/ s[i] \in {"@", ".", "-"}

AllDigits(s) == s # <<>> /\ \A i \in DOMAIN s : IsDigit(s[i])

RECURSIVE DigitsValue(_)
DigitsValue(s) ==
    IF s = <<>> THEN 0
    ELSE 10 * DigitsValue(SubSeq(s, 1, Len(s) - 1)) + (IndexOf(Digits, s[Len(s)]) - 1)

\* new BigNumber(s) on the strings of the model (no exponent, no base
\* prefix, no white space): -?digits, -?digits.digits; anything else is NaN
BigNumberOf(s) ==
    LET neg == s # <<>> /\ s[1] = "-"
        body == IF neg THEN Tail(s) ELSE s
        dots == {i \in DOMAIN body : body[i] = "."}
        dot == CHOOSE i \in dots : TRUE
        whole == IF dots = {} THEN body ELSE SubSeq(body, 1, dot - 1)
        part == IF dots = {} THEN <<>> ELSE SubSeq(body, dot + 1, Len(body))
        sign == IF neg THEN -1 ELSE 1
    IN IF Cardinality(dots) > 1 \/ ~AllDigits(whole) \/ (part # <<>> /\ ~AllDigits(part))
       THEN VBigNaN
       ELSE IF part # <<>> /\ \E i \in DOMAIN part : part[i] # "0"
       THEN VBig(sign * DigitsValue(whole), TRUE)
       ELSE VBig(sign * DigitsValue(whole), FALSE)

\* the i-th element (from 0) of the array pattern `([, year, month, ...])`
\* applied to a string, through parseInt(c, 10): <<n>> for a digit, <<>> for
\* NaN (another character, or undefined behind the end of the string)
CharAt(s, i) ==
    IF i + 1 <= Len(s) /\ IsDigit(s[i + 1]) THEN <<IndexOf(Digits, s[i + 1]) - 1>> ELSE <<>>

DaysInMonth(y, m) ==
    IF m = 2 THEN (IF (y % 4 = 0 /\ y % 100 # 0) \/ y % 400 = 0 THEN 29 ELSE 28)
    ELSE IF m \in {4, 6, 9, 11} THEN 30 ELSE 31

\* DateTime.utc(year, month, day, hour, minute, second, millisecond) of
\* parsed units; a NaN or out-of-range unit gives an invalid DateTime
DateTimeUtc(units) ==
    IF \E i \in DOMAIN units : units[i] = <<>> THEN VInvalidDate
    ELSE LET u == [i \in DOMAIN units |-> units[i][1]]
         IN IF /\ u[2] \in 1..12 /\ u[3] \in 1..DaysInMonth(u[1], u[2])
               /\ u[4] \in 0..23 /\ u[5] \in 0..59 /\ u[6] \in 0..59
            THEN VDate(u)
            ELSE VInvalidDate

Pad(n, width) ==
    LET text == NumToText(n)
    IN [i \in 1..(width - Len(text)) |-> "0"] \o text

\* dt.toUTC().toISODate(): a string, or null for an invalid DateTime
toISODate(v) ==
    IF v.nan THEN VNull
    ELSE VStr(Pad(v.d[1] \div 100, 2) \o Pad(v.d[1] % 100, 2) \o <<"-">>
              \o Pad(v.d[2], 2) \o <<"-">> \o Pad(v.d[3], 2))

\* dt.toUTC().toISO()
toISO(v) ==
    IF v.nan THEN VNull
    ELSE VStr(toISODate(v).s \o <<"T">> \o Pad(v.d[4], 2) \o <<":">> \o Pad(v.d[5], 2)
              \o <<":">> \o Pad(v.d[6], 2) \o <<".">> \o Pad(v.d[7] \div 10, 2)
              \o Pad(v.d[7] % 10, 1) \o <<"Z">>)

\* testString
testString(v, ctx) == IF v.t = "str" THEN success(v) ELSE Expected(ctx, "a string")

\* testStringIsDate: and(testStringLength(10, 10), testStringMatches(...),
\* ([, year, month, day]) => success(DateTime.utc(...))); testStringMatches
\* hands on m[0], the matched string, which the array pattern then indexes
testStringIsDate(v, ctx) ==
    IF Len(v.s) # 10 THEN Expected(ctx, "exactly 10 characters")
    ELSE IF ~RegExpMatches(DatePattern, v.s) THEN Expected(ctx, "an ISO date")
    ELSE success(DateTimeUtc(<<CharAt(v.s, 1), CharAt(v.s, 2), CharAt(v.s, 3),
                               <<0>>, <<0>>, <<0>>, <<0>>>>))

\* testStringIsDateTime
testStringIsDateTime(v, ctx) ==
    IF Len(v.s) # 24 THEN Expected(ctx, "exactly 24 characters")
    ELSE IF ~RegExpMatches(DateTimePattern, v.s) THEN Expected(ctx, "an Oracle date-time")
    ELSE success(DateTimeUtc(<<CharAt(v.s, 1), CharAt(v.s, 2), CharAt(v.s, 3),
                               CharAt(v.s, 4), CharAt(v.s, 5), CharAt(v.s, 6),
                               CharAt(v.s, 7)>>))

\* testUuid: and(testStringLength(36, 36), testStringMatches(...))
testUuid(v, ctx) ==
    IF Len(v.s) # 36 THEN Expected(ctx, "exactly 36 characters")
    ELSE IF ~RegExpMatches(UuidPattern, v.s) THEN Expected(ctx, "a valid UUID")
    ELSE success(v)

\* testBooleanString = testBooleanStrings("true", "false")
testBooleanString(v, ctx) ==
    IF v = VStr(<<"t","r","u","e">>) THEN success(VBool(TRUE))
    ELSE IF v = VStr(<<"f","a","l","s","e">>) THEN success(VBool(FALSE))
    ELSE Expected(ctx, "'true' or 'false'")

\* testBigNumberFinite, testBigNumberInteger
testBigNumberFinite(v, ctx) == IF ~v.nan THEN success(v) ELSE Expected(ctx, "a number")

testBigNumberInteger(v, ctx) ==
    IF ~v.nan /\ ~v.frac THEN success(v) ELSE Expected(ctx, "an integer")

\* testType(BigNumber)
testTypeBigNumber(v, ctx) == IF v.t = "big" THEN success(v) ELSE Expected(ctx, "BigNumber")

\* testNumber = and(testType(BigNumber), testBigNumberFinite)
testNumber(v, ctx) ==
    IF ~testTypeBigNumber(v, ctx).success THEN testTypeBigNumber(v, ctx)
    ELSE testBigNumberFinite(v, ctx)

\* testInteger = and(testNumber, testBigNumberInteger)
testInteger(v, ctx) ==
    IF ~testNumber(v, ctx).success THEN testNumber(v, ctx)
    ELSE testBigNumberInteger(v, ctx)

\* testNumberString = and(testString, (s) => success(new BigNumber(s)), finite)
testNumberString(v, ctx) ==
    IF v.t # "str" THEN testString(v, ctx) ELSE testBigNumberFinite(BigNumberOf(v.s), ctx)

\* testIntegerString
testIntegerString(v, ctx) ==
    IF v.t # "str" THEN testString(v, ctx) ELSE testBigNumberInteger(BigNumberOf(v.s), ctx)

\* testObject: typeof thing === "object" && thing !== null
testObject(v, ctx) ==
    IF v.t \in {"arr", "obj", "big", "date", "map"} THEN success(v)
    ELSE Expected(ctx, "an object")

\* an addIndex that would add the index as a segment of its own
addIndexAsSegment(ctx, i) == Append(ctx, NumToText(i))

\* addIndex
addIndex(ctx, i) ==
    IF ctx = <<>> THEN <<NumToText(i)>>
    ELSE SubSeq(ctx, 1, Len(ctx) - 1)
         \o <<ctx[Len(ctx)] \o <<"[">> \o NumToText(i) \o <<"]">>>>

(***************************************************************************)
(* The emitted type-utils library: the combinators, and the evaluation of  *)
(* a generated expression on a value and a context (a sequence of path     *)
(* segments).                                                              *)
(***************************************************************************)
RECURSIVE Eval(_, _, _)
RECURSIVE and(_, _, _, _)
RECURSIVE or(_, _, _, _, _)
RECURSIVE orBackwards(_, _, _, _, _)
RECURSIVE TestElements(_, _, _, _, _)
RECURSIVE TestEntries(_, _, _, _, _)
RECURSIVE TestProperties(_, _, _, _, _)

\* and(...tests): each test is handed the value of the one before it
and(tests, i, cur, ctx) ==
    IF i > Len(tests) THEN success(cur)
    ELSE LET result == Eval(tests[i], cur, ctx)
         IN IF ~result.success THEN [result EXCEPT !.tried = 0]
            ELSE and(tests, i + 1, result.value, ctx)

\* an `or` that would try the tests from the last to the first
orBackwards(tests, i, thing, ctx, messages) ==
    IF i > Len(tests)
    THEN [failure(Join(messages, <<OrSeparator>>)) EXCEPT !.tried = Len(tests)]
    ELSE LET result == Eval(tests[Len(tests) + 1 - i], thing, ctx)
         IN IF result.success \/ result.threw THEN [result EXCEPT !.tried = i]
            ELSE orBackwards(tests, i + 1, thing, ctx, Append(messages, result.message))

\* or(...tests): the loop from test i on, with the messages pushed so far
or(tests, i, thing, ctx, messages) ==
    IF i > Len(tests)
    THEN [failure(Join(messages, <<OrSeparator>>)) EXCEPT !.tried = Len(tests)]
    ELSE LET result == Eval(tests[i], thing, ctx)
         IN IF result.success \/ result.threw THEN [result EXCEPT !.tried = i]
            ELSE or(tests, i + 1, thing, ctx, Append(messages, result.message))

\* the loop of testArray / printArray over the elements
TestElements(test, elems, i, ctx, results) ==
    IF i > Len(elems) THEN success(VArr(results))
    ELSE IF ctx = UndefinedContext THEN Throws("TypeError")
    ELSE LET result == Eval(test, elems[i], addIndex(ctx, i - 1))
         IN IF ~result.success THEN [result EXCEPT !.tried = 0]
            ELSE TestElements(test, elems, i + 1, ctx, Append(results, result.value))

\* testArray(test)
testArray(test, thing, ctx) ==
    IF thing.t = "arr" THEN TestElements(test, thing.elems, 1, ctx, <<>>)
    ELSE Expected(ctx, "an array")

\* a testParamArray that would be testArray
testParamArrayOnly(test, thing, ctx) == testArray(test, thing, ctx)

\* testParamArray(test) = or(testArray(test), and(test, (x) => success([x])))
testParamArray(test, thing, ctx) ==
    or(<<Ex("testArray", <<test>>), Ex("and", <<test, Ex("singleton", <<>>)>>)>>,
       1, thing, ctx, <<>>)

\* printArray(test): thing.length of undefined or null is a TypeError; a
\* string has a length and its characters; of any other value that is no
\* array thing.length is undefined and the loop does not run
printArray(test, thing, ctx) ==
    IF isUndefined(thing) THEN Throws("TypeError")
    ELSE TestElements(test,
                      IF thing.t = "arr" THEN thing.elems
                      ELSE IF thing.t = "str" THEN [i \in DOMAIN thing.s |-> VStr(<<thing.s[i]>>)]
                      ELSE <<>>,
                      1, ctx, <<>>)

\* the loop of testMap / printMap over the entries
TestEntries(test, entries, i, ctx, results) ==
    IF i > Len(entries) THEN success(VMap(results))
    ELSE IF ctx = UndefinedContext THEN Throws("TypeError")
    ELSE LET result == Eval(test, entries[i].v, Append(ctx, entries[i].k))
         IN IF ~result.success THEN [result EXCEPT !.tried = 0]
            ELSE TestEntries(test, entries, i + 1, ctx,
                             Append(results, Entry(entries[i].k, result.value)))

\* testMap(test) = and(testObject, (thing, context) => ...)
testMap(test, thing, ctx) ==
    IF ~testObject(thing, ctx).success THEN testObject(thing, ctx)
    ELSE TestEntries(test, ObjectEntries(thing), 1, ctx, <<>>)

\* printMap(test): thing.entries() of a Map, or of an array (its indices);
\* any other value has no entries method, a TypeError
printMap(test, thing, ctx) ==
    IF thing.t \notin {"map", "arr"} THEN Throws("TypeError")
    ELSE LET r == TestEntries(test, IF thing.t = "map" THEN thing.entries
                                    ELSE ObjectEntries(thing), 1, ctx, <<>>)
         IN IF r.success THEN success(VObj(r.value.entries)) ELSE r

\* the loop of testModelObject / printModelObject over Object.entries(props)
TestProperties(props, i, thing, ctx, results) ==
    IF i > Len(props) THEN success(VObj(results))
    ELSE LET result == Eval(props[i].test, Property(thing, props[i].key),
                            Append(ctx, props[i].key))
         IN IF ~result.success THEN [result EXCEPT !.tried = 0]
            ELSE TestProperties(props, i + 1, thing, ctx,
                                Append(results, Entry(props[i].key, result.value)))

\* testModelObject(name, props) = addContext(and(testObject, ...), name),
\* also printModelObject; props is a sequence of [key, test]
testModelObject(name, props, thing, ctx) ==
    IF ctx = UndefinedContext THEN Throws("TypeError")
    ELSE IF ~testObject(thing, Append(ctx, name)).success THEN testObject(thing, Append(ctx, name))
    ELSE TestProperties(props, 1, thing, Append(ctx, name), <<>>)

\* the props the model file of `name` hands to testModelObject (use "test")
\* or printModelObject (use "print")
ModelProps(name, use) ==
    LET props == models[name]
    IN [i \in DOMAIN props |->
          [key |-> props[i].key,
           test |-> IF use = "test" THEN props[i].test ELSE props[i].print]]

\* testOneOf(values): values.includes(thing)
testOneOf(values, thing, ctx) ==
    IF thing.t = "str" /\ \E i \in DOMAIN values : values[i] = thing.s
    THEN success(thing)
    ELSE Expected(ctx, "one of the values")

\* an opt that would run the test on an absent value as well
optOnAbsent(test, thing, ctx) == Eval(test, thing, ctx)

\* opt(test)
opt(test, thing, ctx) ==
    IF isUndefined(thing) THEN success(VUndefined) ELSE Eval(test, thing, ctx)

\* the value of the generated expression e applied to (thing, ctx)
Eval(e, thing, ctx) ==
    CASE e.op = "testString" -> testString(thing, ctx)
      [] e.op = "testBoolean" ->
            IF thing.t = "bool" THEN success(thing) ELSE Expected(ctx, "a boolean")
      [] e.op = "testNumber" -> testNumber(thing, ctx)
      [] e.op = "testInteger" -> testInteger(thing, ctx)
      [] e.op = "testStringLength" ->
            IF /\ (e.min = <<>> \/ Len(thing.s) >= e.min[1])
               /\ (e.max = <<>> \/ Len(thing.s) <= e.max[1])
            THEN success(thing)
            ELSE Expected(ctx, "a length in the range")
      [] e.op = "testEmail" ->
            IF EmailValidate(thing.s) THEN success(thing) ELSE Expected(ctx, "an email")
      [] e.op = "testUuid" -> testUuid(thing, ctx)
      [] e.op = "testBooleanString" -> testBooleanString(thing, ctx)
      [] e.op = "testNumberString" -> testNumberString(thing, ctx)
      [] e.op = "testIntegerString" -> testIntegerString(thing, ctx)
      [] e.op = "testDateString" ->
            IF thing.t # "str" THEN testString(thing, ctx) ELSE testStringIsDate(thing, ctx)
      [] e.op = "testDateTimeString" ->
            IF thing.t # "str" THEN testString(thing, ctx)
            ELSE testStringIsDateTime(thing, ctx)
      [] e.op = "testType(DateTime)" ->
            IF thing.t = "date" THEN success(thing) ELSE Expected(ctx, "DateTime")
      [] e.op = "toISODate" -> success(toISODate(thing))
      [] e.op = "toISO" -> success(toISO(thing))
      [] e.op = "singleton" -> success(VArr(<<thing>>))
      [] e.op = "testOneOf" ->
            testOneOf(SchemaNamed(Tail(e.name)).enum, thing, ctx)
      [] e.op = "test" -> testModelObject(e.name, ModelProps(e.name, "test"), thing, ctx)
      [] e.op = "print" -> testModelObject(e.name, ModelProps(e.name, "print"), thing, ctx)
      [] e.op = "opt" -> opt(e.args[1], thing, ctx)
      [] e.op = "and" -> and(e.args, 1, thing, ctx)
      [] e.op = "or" -> or(e.args, 1, thing, ctx, <<>>)
      [] e.op = "testArray" -> testArray(e.args[1], thing, ctx)
      [] e.op = "testParamArray" -> testParamArray(e.args[1], thing, ctx)
      [] e.op = "printArray" -> printArray(e.args[1], thing, ctx)
      [] e.op = "testMap" -> testMap(e.args[1], thing, ctx)
      [] e.op = "printMap" -> printMap(e.args[1], thing, ctx)
      \* testBigNumber, testBigInteger, testBigNumberString, testBigIntegerString:
      \* type-utils exports no such symbol
      [] OTHER -> Throws("ReferenceError")

(***************************************************************************)
(* The parameter loops of the Api Emitter and the Client Emitter           *)
(* (index.ts, writeApi and writeClient).  A parameter is [ref, name, in,   *)
(* required, schema]: ref marks a reference object in place of the         *)
(* parameter, schema is a sequence of length 0 (absent) or 1.  The result  *)
(* is [desc, code]: what getRuntimeType returned and what the call of      *)
(* fromJsonParam() returned.                                               *)
(***************************************************************************)
NoDesc == Thrown(NewImports(""), NoErr)

NoCode == NotGenerated(NewImports(""), NoErr)

\* `${operationId}.${paramType}.${paramName}`
ParameterContext(operationId, parameter) ==
    operationId \o <<".", parameter.in, ".">> \o parameter.name

\* writeApi, the body of `for (const parameter of parameters)`
writeApiParameter(operationId, parameter, imp) ==
    LET ctx == ParameterContext(operationId, parameter)
        r == getRuntimeType(parameter.schema[1], imp, ctx)
        imp1 == addValidate(r.imports, "validate")
        imp2 == IF parameter.required THEN imp1 ELSE addValidate(imp1, "opt")
        test == Thunk("fromJsonParam", parameter.schema[1], imp2, ctx)
    IN IF parameter.ref
       THEN [desc |-> Thrown(imp, Err("ReferenceInParameter", "", <<>>, {}, operationId)),
             code |-> NoCode]
       ELSE IF parameter.schema = <<>>
       THEN [desc |-> Thrown(imp, Err("MissingParameterSchema", "", <<>>, {}, operationId)),
             code |-> NoCode]
       ELSE IF ~r.ok THEN [desc |-> r, code |-> NoCode]
       ELSE IF ~test.ok THEN [desc |-> r, code |-> test]
       ELSE [desc |-> r,
             code |-> IF parameter.required THEN test
                      ELSE [test EXCEPT !.expr = Ex("opt", <<test.expr>>)]]

\* writeClient, the body of `for (const parameter of parameters)`: only the
\* typeName of the descriptor is read
writeClientParameter(operationId, parameter, imp) ==
    LET ctx == ParameterContext(operationId, parameter)
        r == getRuntimeType(parameter.schema[1], imp, ctx)
    IN IF parameter.ref
       THEN [desc |-> Thrown(imp, Err("ReferenceInParameter", "", <<>>, {}, operationId)),
             code |-> NoCode]
       ELSE IF parameter.in \notin {"path", "query"}
       THEN [desc |-> Thrown(imp, Err("ParamNotPathOrQuery", "", <<>>, {}, operationId)),
             code |-> NoCode]
       ELSE IF parameter.schema = <<>>
       THEN [desc |-> Thrown(imp, Err("MissingParameterSchema", "", <<>>, {}, operationId)),
             code |-> NoCode]
       ELSE [desc |-> r, code |-> NoCode]

(***************************************************************************)
(* The inputs of the model: an OpenAPI document, the schema nodes handed   *)
(* to the resolver, and the run-time values handed to the generated code.  *)
(***************************************************************************)
TypeSchema(type) == [NoSchema EXCEPT !.type = type]
StringFormat(format) == [NoSchema EXCEPT !.type = "string", !.format = format]
Sized(s, min, max) == [s EXCEPT !.minLength = min, !.maxLength = max]
RefTo(name) == [NoSchema EXCEPT !.ref = <<<<RefPrefix>> \o name>>]
ArrayOf(s) == [NoSchema EXCEPT !.type = "array", !.items = <<s>>]
MapOf(s) == [NoSchema EXCEPT !.type = "object", !.additionalProperties = <<s>>]
OneOf(branches) == [NoSchema EXCEPT !.oneOf = <<branches>>]
With(s, keys) == [s EXCEPT !.extra = keys]

StatusName == <<"S", "t", "a", "t", "u", "s">>
UserName == <<"U", "s", "e", "r">>
WidgetName == <<"W", "i", "d", "g", "e", "t">>
NameKey == <<"n", "a", "m", "e">>
TagsKey == <<"t", "a", "g", "s">>

PropertyOf(name, s) == [name |-> name, schema |-> s]

\* components.schemas of the document
Document ==
    << [name |-> StatusName, schema |-> EnumSchema(<< <<"A">>, <<"B">> >>)],
       [name |-> UserName,
        schema |-> ObjectSchema(<<PropertyOf(NameKey, StringFormat(""))>>, {NameKey})],
       [name |-> WidgetName,
        schema |-> ObjectSchema(
            <<PropertyOf(NameKey, StringFormat("")),
              PropertyOf(TagsKey, ArrayOf(StringFormat(""))),
              PropertyOf(<<"s", "t", "a", "t", "u", "s">>, RefTo(StatusName)),
              PropertyOf(<<"o", "w", "n", "e", "r">>, RefTo(UserName)),
              PropertyOf(<<"c", "o", "u", "n", "t", "s">>, MapOf(TypeSchema("integer"))),
              PropertyOf(<<"e", "i", "t", "h", "e", "r">>,
                         OneOf(<<TypeSchema("boolean"), StringFormat("")>>))>>,
            {NameKey})] >>

\* schema nodes without a nested schema: each of the plain ones alone, with
\* `description`, and with `pattern`
Leaves ==
    LET plain ==
          {StringFormat(f) : f \in {"", "email", "password", "uuid", "date", "date-time",
                                    "binary", "byte"}}
          \cup {Sized(StringFormat(""), <<1>>, <<3>>), Sized(StringFormat(""), <<0>>, <<>>),
                Sized(StringFormat(""), <<>>, <<0>>), Sized(StringFormat("email"), <<>>, <<3>>),
                Sized(StringFormat("uuid"), <<1>>, <<>>), Sized(StringFormat("uuid"), <<>>, <<3>>),
                Sized(StringFormat("date"), <<1>>, <<>>)}
          \cup {TypeSchema(ty) :
                  ty \in {"boolean", "integer", "number", "null", "", "object", "array"}}
          \cup {[TypeSchema(ty) EXCEPT !.format = f] :
                  ty \in {"integer", "number"}, f \in {"big", "int32"}}
          \cup {[TypeSchema("object") EXCEPT !.apBoolean = "true"]}
          \cup {RefTo(StatusName), RefTo(UserName), RefTo(<<"G", "h", "o", "s", "t">>),
                [NoSchema EXCEPT !.ref = << <<"#/definitions/", "U">> >>],
                [NoSchema EXCEPT !.ref = << <<RefPrefix, "a", "-", "b">> >>],
                [NoSchema EXCEPT !.ref = << <<RefPrefix>> >>],
                RefTo(<<"u", "s", "e", "r", "N", "a", "m", "e">>)}
    IN {With(s, keys) : s \in plain, keys \in {{}, {"description"}, {"pattern"}}}

\* the schema nodes found as items and additionalProperties
Items ==
    {StringFormat(""), TypeSchema("integer"), RefTo(StatusName), RefTo(UserName),
     TypeSchema("null"), With(TypeSchema("boolean"), {"pattern"}),
     Sized(StringFormat(""), <<0>>, <<>>)}

\* the branches of the oneOf schemas
Branches ==
    {StringFormat(""), RefTo(StatusName), RefTo(UserName),
     MapOf(TypeSchema("integer")), With(TypeSchema("boolean"), {"pattern"})}

RECURSIVE Nested(_)
\* arrays, maps and unions nested up to d deep
Nested(d) ==
    IF d = 0 THEN Items
    ELSE LET inner == Nested(d - 1)
         IN Items \cup {ArrayOf(s) : s \in inner} \cup {MapOf(s) : s \in inner}
                  \cup {OneOf(b) : b \in UNION {[1..n -> Branches] : n \in 1..MaxBranches}}

Schemas ==
    Leaves \cup {With(s, keys) : s \in Nested(MaxDepth), keys \in {{}, {"pattern"}}}

\* resolve-time context strings
Contexts == {<<"c">>, WidgetName \o <<".">> \o TagsKey}

OperationId == <<"o", "p">>

Parameter(in, required, s) ==
    [ref |-> FALSE, name |-> <<"p">>, in |-> in, required |-> required, schema |-> s]

Parameters ==
    {Parameter("path", TRUE, <<s>>) : s \in Schemas}
    \cup {Parameter("query", required, <<s>>) : required \in BOOLEAN, s \in Schemas}
    \cup {Parameter("header", FALSE, <<s>>) : s \in Schemas}
    \cup {Parameter("query", FALSE, <<>>),
          [Parameter("query", FALSE, <<>>) EXCEPT !.ref = TRUE]}

(***************************************************************************)
(* The generator: the resolver is called on a schema node, a thunk of the  *)
(* descriptor is called, or one parameter of an operation is written.      *)
(***************************************************************************)
NoOutcome == failure(<<>>)

\* operationsByTag before the loop over the paths has run, without declared
\* tags: [ok, err, groups], groups a function from tag name to operations
\* no call was made yet
NoCall ==
    [op |-> "", folder |-> "", file |-> <<>>, name |-> <<>>, def |-> FALSE, ok |-> TRUE,
     result |-> <<>>]

\* an output directory that does not exist
NoDir == [files |-> {}, hash |-> <<>>]

NoOperations == [ok |-> TRUE, err |-> NoErr, groups |-> <<>>]

\* no class written yet: [ok, err, classes], classes a function from tag name
\* to the methods of its class
NoClasses == [ok |-> TRUE, err |-> NoErr, classes |-> <<>>]

Init ==
    /\ pc = "start"
    /\ mode \in {"api", "client"}
    /\ schemas = Document
    /\ enumTypes = ClassifiedEnums(Document)
    /\ models = writeModels(Document)
    /\ schema = NoSchema
    /\ context = <<>>
    /\ imports = NewImports(mode)
    /\ desc = NoDesc
    /\ position = ""
    /\ code = NoCode
    /\ path = <<>>
    /\ input = VUndefined
    /\ outcome = NoOutcome
    /\ paths = <<>>
    /\ operations = NoOperations
    /\ emitted = NoClasses
    /\ call = NoCall
    /\ rendered = <<>>
    /\ dir = NoDir
    /\ log = <<>>

\* getRuntimeType(schema, imports, context)
Resolve ==
    /\ pc = "start"
    /\ \E s \in Schemas, ctx \in Contexts :
          /\ schema' = s
          /\ context' = ctx
          /\ desc' = getRuntimeType(s, imports, ctx)
    /\ imports' = desc'.imports
    /\ pc' = IF desc'.ok THEN "resolved" ELSE "failed"
    /\ UNCHANGED <<call, rendered, dir, log, paths, operations, emitted, mode, schemas, models, enumTypes,
                   position, code, path, input, outcome>>

\* descriptor.fromJson(), descriptor.fromJsonParam() or descriptor.toJson()
CallThunk ==
    /\ pc = "resolved"
    /\ \E pos \in Positions :
          /\ position' = pos
          /\ code' = Thunk(pos, schema, imports, context)
    /\ imports' = code'.imports
    /\ pc' = IF code'.ok THEN "generated" ELSE "failed"
    /\ UNCHANGED <<call, rendered, dir, log, paths, operations, emitted, mode, schemas, models, enumTypes,
                   schema, context, desc, path, input, outcome>>

\* one turn of the parameter loop of writeApi (api mode) or writeClient
WriteParameter ==
    /\ pc = "start"
    /\ \E parameter \in Parameters :
          LET written == IF mode = "api"
                         THEN writeApiParameter(OperationId, parameter, imports)
                         ELSE writeClientParameter(OperationId, parameter, imports)
          IN /\ schema' = IF parameter.schema = <<>> THEN NoSchema ELSE parameter.schema[1]
             /\ context' = ParameterContext(OperationId, parameter)
             /\ desc' = written.desc
             /\ code' = written.code
    /\ position' = IF mode = "api" /\ desc'.ok THEN "fromJsonParam" ELSE ""
    /\ imports' = IF code'.ok THEN code'.imports ELSE desc'.imports
    /\ pc' = IF desc'.ok /\ (mode = "client" \/ code'.ok) THEN "emitted" ELSE "aborted"
    /\ UNCHANGED <<call, rendered, dir, log, paths, operations, emitted, mode, schemas, models, enumTypes,
                   path, input, outcome>>

Next == Resolve \/ CallThunk \/ WriteParameter

Spec == Init /\ [][Next]_vars

(***************************************************************************)
(* The generated code at run time: the expression a thunk generated is     *)
(* wrapped in validate(...) and called on a value and a context array.     *)
(***************************************************************************)
\* strings in the forms of a date and of a date-time, and near them
DateText == <<"2", "0", "2", "0", "-", "0", "1", "-", "0", "2">>
LetterDateText == <<"d", "d", "d", "d", "-", "d", "d", "-", "d", "d">>

DateTexts ==
    {DateText, LetterDateText,
     <<"2", "0", "2", "1", "-", "0", "2", "-", "2", "9">>,
     <<"2", "0", "2", "0", "-", "1", "-", "2">>,
     <<"2", "0", "2", "0", "/", "0", "1", "/", "0", "2">>,
     <<"2", "0", "2", "0", "-", "0", "1", "-", "0", "2", "T", "0", "3", ":", "0", "4", ":", "0", "5", ".", "6", "7", "8", "Z">>,
     <<"2", "0", "2", "0", "-", "0", "1", "-", "0", "2", "T", "0", "3", ":", "0", "4", ":", "0", "5", ",", "6", "7", "8", "Z">>,
     <<"2", "0", "2", "0", "-", "0", "1", "-", "0", "2", "T", "0", "3", ":", "0", "4", ":", "0", "5", "+", "0", "1", ":", "0", "0">>,
     <<"d", "d", "d", "d", "-", "d", "d", "-", "d", "d", "T", "d", "d", ":", "d", "d", ":", "d", "d", ".", "d", "d", "d", "Z">>,
     <<"d", "d", "d", "d", "-", "d", "d", "-", "d", "d", "T", "d", "d", ":", "d", "d", ":", "d", "d", ",", "d", "d", "d", "Z">>}

\* five groups of the character c with the given sizes, hyphens between them
Grouped(sizes, c) == Join([k \in DOMAIN sizes |-> Rep(sizes[k], c)], <<"-">>)

\* the sizes of the groups of a UUID in its canonical text (RFC 4122)
CanonicalGroups == <<8, 4, 4, 4, 12>>

\* strings handed to the validator of `format: uuid`: canonical texts of
\* UUIDs in lower and upper case, the groups in the reverse order, a letter
\* that is no hex digit, 36 and 32 hex digits without hyphens, and a
\* canonical text with one character more
UuidTexts ==
    {Grouped(CanonicalGroups, "a"), Grouped(CanonicalGroups, "F"), Grouped(CanonicalGroups, "0"),
     Grouped(<<12, 4, 4, 4, 8>>, "a"), Grouped(CanonicalGroups, "g"),
     Rep(36, "a"), Rep(32, "a"), Grouped(CanonicalGroups, "a") \o <<"a">>}

\* the elements of the arrays and the values of the objects
Elements == {VNum(1, FALSE), VNum(2, FALSE), VBig(1, FALSE), VStr(<<"a">>), VStr(<<"1">>)}

ElementLists == UNION {[1..n -> Elements] : n \in 0..MaxElems}

\* the plain object with the keys a, b, ... and the given values
ObjectOf(values) ==
    VObj([i \in DOMAIN values |-> Entry(<<LowerLetters[i]>>, values[i])])

\* the values handed to the generated code: values that are neither arrays
\* nor objects, class instances, arrays, plain objects, and JSON objects in
\* the shape of the Widget and User models of the document
Things ==
    LET named(key, v) == VObj(<<Entry(NameKey, VStr(<<"a">>)), Entry(key, v)>>)
    IN {VUndefined, VNull, VBool(TRUE), VNum(1, FALSE), VNum(2, FALSE), VNum(1, TRUE),
        VBig(1, FALSE), VBig(1, TRUE), VBigNaN,
        VStr(<<>>), VStr(<<"a">>), VStr(<<"A">>), VStr(<<"1">>), VStr(<<"1", ".", "5">>),
        VStr(<<"t", "r", "u", "e">>), VStr(<<"a", "b", "c", "d">>),
        VDate(<<2020, 1, 2, 0, 0, 0, 0>>), VDate(<<2020, 1, 2, 3, 4, 5, 678>>),
        VInvalidDate,
        VMap(<<Entry(<<"a">>, VBig(1, FALSE))>>), VMap(<<Entry(<<"a">>, VStr(<<"a">>))>>)}
       \cup {VStr(s) : s \in DateTexts}
       \cup {VStr(s) : s \in UuidTexts}
       \cup {VArr(elems) : elems \in ElementLists}
       \cup {ObjectOf(values) : values \in ElementLists}
       \cup {VArr(<<VArr(elems)>>) : elems \in ElementLists}
       \cup {named(TagsKey, VArr(elems)) : elems \in ElementLists}
       \cup {named(<<"c", "o", "u", "n", "t", "s">>, ObjectOf(<<v>>)) : v \in Elements}
       \cup {named(<<"e", "i", "t", "h", "e", "r">>, v) : v \in Elements}
       \cup {VObj(<<Entry(NameKey, v)>>) : v \in Elements}
       \cup {named(<<"o", "w", "n", "e", "r">>, VObj(<<Entry(NameKey, v)>>)) : v \in Elements}
       \cup {named(<<"o", "w", "n", "e", "r">>, v) : v \in {VNull, VStr(<<"a">>)}}
       \cup {named(<<"s", "t", "a", "t", "u", "s">>, v) : v \in {VStr(<<"A">>), VStr(<<"a">>)}}

\* the schemas whose generated code is run
RunSchemas ==
    {StringFormat(f) : f \in {"", "email", "uuid", "date", "date-time"}}
    \cup {Sized(StringFormat(""), <<1>>, <<3>>),
          TypeSchema("boolean"), TypeSchema("integer"), TypeSchema("number"),
          [TypeSchema("integer") EXCEPT !.format = "big"],
          RefTo(StatusName), RefTo(UserName), RefTo(WidgetName)}
    \cup {ArrayOf(s) : s \in {StringFormat(""), TypeSchema("integer"), RefTo(StatusName),
                              ArrayOf(StringFormat("")), MapOf(StringFormat(""))}}
    \cup {MapOf(s) : s \in {StringFormat(""), TypeSchema("integer"),
                            ArrayOf(StringFormat(""))}}
    \cup {OneOf(b) : b \in {<<StringFormat(""), TypeSchema("integer")>>,
                            <<TypeSchema("integer"), StringFormat("")>>,
                            <<TypeSchema("boolean"), RefTo(StatusName)>>,
                            <<StringFormat("date"), StringFormat("")>>,
                            <<ArrayOf(StringFormat("")), StringFormat("")>>,
                            <<TypeSchema("boolean"), TypeSchema("integer"), StringFormat("")>>,
                            <<StringFormat("")>>}}

\* the context arrays the generated api code hands to a validator
RunPaths == {<<>>, <<OperationId, <<"requestBody">>>>}

RunInit ==
    /\ pc = "generated"
    /\ mode = "api"
    /\ schemas = Document
    /\ enumTypes = ClassifiedEnums(Document)
    /\ models = writeModels(Document)
    /\ schema \in RunSchemas
    /\ context = <<"c">>
    /\ desc = getRuntimeType(schema, NewImports(mode), context)
    /\ position \in Positions
    /\ code = Thunk(position, schema, desc.imports, context)
    /\ code.ok
    /\ imports = code.imports
    /\ path \in RunPaths
    /\ input = VUndefined
    /\ outcome = NoOutcome
    /\ paths = <<>>
    /\ operations = NoOperations
    /\ emitted = NoClasses
    /\ call = NoCall
    /\ rendered = <<>>
    /\ dir = NoDir
    /\ log = <<>>

\* validate(<code>)(thing, path): the value is returned, or a TypeError with
\* the message of the failure is thrown
Validate(thing) ==
    /\ input' = thing
    /\ outcome' = Eval(code.expr, thing, path)
    /\ pc' = IF outcome'.success THEN "returned" ELSE "threw"
    /\ UNCHANGED <<call, rendered, dir, log, paths, operations, emitted, mode, schemas, models, enumTypes,
                   schema, context, imports, desc, position,
                   code, path>>

\* a decoder (fromJson or fromJsonParam) is called
Decode ==
    /\ pc = "generated"
    /\ position \in {"fromJson", "fromJsonParam"}
    /\ \E thing \in Things : Validate(thing)

\* an encoder (toJson) is called
Encode ==
    /\ pc = "generated"
    /\ position = "toJson"
    /\ \E thing \in Things : Validate(thing)

\* a value is encoded (toJson) and what the encoder returned is decoded
\* (fromJson) by the code generated for the same schema
RoundTrip ==
    /\ pc = "generated"
    /\ position = "toJson"
    /\ \E thing \in Things :
          /\ input' = thing
          /\ outcome' = Eval(Ex("and", <<code.expr,
                                         Thunk("fromJson", schema, imports, context).expr>>),
                             thing, path)
    /\ pc' = "roundtrip"
    /\ UNCHANGED <<call, rendered, dir, log, paths, operations, emitted, mode, schemas, models, enumTypes,
                   schema, context, imports, desc, position,
                   code, path>>

RECURSIVE IsJson(_)
\* the value is one that JSON.parse returns
IsJson(v) ==
    /\ v.t \in {"null", "bool", "num", "str", "arr", "obj"}
    /\ \A i \in DOMAIN v.elems : IsJson(v.elems[i])
    /\ \A i \in DOMAIN v.entries : IsJson(v.entries[i].v)

\* the TypeTestResult r as the object it is: {success: true, value} or
\* {success: false, message}
ResultObject(r) ==
    IF r.success
    THEN VObj(<<Entry(<<"s", "u", "c", "c", "e", "s", "s">>, VBool(TRUE)),
                Entry(<<"v", "a", "l", "u", "e">>, r.value)>>)
    ELSE VObj(<<Entry(<<"s", "u", "c", "c", "e", "s", "s">>, VBool(FALSE)),
                Entry(<<"m", "e", "s", "s", "a", "g", "e">>, VStr(<<"message">>))>>)

\* a generated client method: the end of BaseClient.fetch, with the code of
\* returnType.fromJson() as convertResponse.  `if (!response.ok) throw json`,
\* then `return convertResponse(json)`: the test is called with the JSON
\* alone.  The outcome is how the promise settles: success is resolved,
\* threw is rejected, value is what it resolves to or rejects with.
Fetch ==
    /\ pc = "generated"
    /\ position = "fromJson"
    /\ \E json \in {v \in Things : IsJson(v)}, ok \in BOOLEAN :
          /\ input' = json
          /\ outcome' = IF ~ok THEN [Throws("json") EXCEPT !.value = json]
                        ELSE IF Eval(code.expr, json, UndefinedContext).threw
                        THEN Eval(code.expr, json, UndefinedContext)
                        ELSE success(ResultObject(Eval(code.expr, json, UndefinedContext)))
          /\ pc' = IF ~ok THEN "refused" ELSE "fetched"
    /\ path' = UndefinedContext
    /\ UNCHANGED <<call, rendered, dir, log, paths, operations, emitted, mode, schemas, models, enumTypes,
                   schema, context, imports, desc, position, code>>

RunNext == Decode \/ Encode \/ RoundTrip \/ Fetch

RunSpec == RunInit /\ [][RunNext]_vars

(***************************************************************************)
(* The Operation Extractor (index.ts, the loop over `paths` that fills      *)
(* operationsByTag).  A path item is [url, methods]: the template and the  *)
(* entries [key, operation] of the item in document order.  An operation   *)
(* is [tags, operationId, parameters, requestBody, responses, other,       *)
(* method, url]: tags is [kind, names] with kind "absent", "string" (a     *)
(* value that is no array) or "array"; operationId and requestBody are     *)
(* sequences of length 0 (absent) or 1; responses is the sequence of the   *)
(* entries [status, ref, content]; other is the set of the keys the        *)
(* emitters do not know; method and url are filled in by the extractor.    *)
(* The groups are a function from tag name to [other, operations]: the     *)
(* keys of the tag other than name and description, and the operations.    *)
(* A content is a sequence of length 0 (absent) or 1 holding [json], the   *)
(* "application/json" media type as a sequence of length 0 or 1 of         *)
(* [schema], itself a sequence of length 0 or 1.                           *)
(***************************************************************************)
\* where /\{(\w+)\}/ matched at p ends in s, or 0 when it does not match at p
ParamEnd(s, p) ==
    LET ends == {q \in (p + 2)..Len(s) :
                    s[q] = "}" /\ \A k \in (p + 1)..(q - 1) : IsWordChar(s[k])}
    IN IF s[p] = "{" /\ ends # {} THEN CHOOSE q \in ends : TRUE ELSE 0

\* a variant of the URL parser that keeps the template as one literal
ParseUrlAsLiteral(urlRest, parts) == parts \o <<[type |-> "literal", value |-> urlRest]>>

RECURSIVE ParseUrl(_, _)
\* the while loop on /^(.*?)\{(\w+)\}/: the shortest start that is followed
\* by a {name} is cut off as a literal (unless empty), the name as a param;
\* what is left at the end is a literal (unless empty).  The templates of
\* the model hold no line terminator, which `.` would not match.
ParseUrl(urlRest, parts) ==
    LET starts == {p \in 1..Len(urlRest) : ParamEnd(urlRest, p) # 0}
        p == CHOOSE first \in starts : \A other \in starts : first <= other
        literal(value) == IF value = <<>> THEN <<>>
                          ELSE <<[type |-> "literal", value |-> value]>>
    IN IF starts = {} THEN parts \o literal(urlRest)
       ELSE ParseUrl(SubSeq(urlRest, ParamEnd(urlRest, p) + 1, Len(urlRest)),
                     parts \o literal(SubSeq(urlRest, 1, p - 1))
                           \o <<[type |-> "param",
                                 value |-> SubSeq(urlRest, p + 1, ParamEnd(urlRest, p) - 1)]>>)

\* a variant of isHttpMethod that knows GET only
isHttpMethodGetOnly(s) == s = <<"G", "E", "T">>

\* isHttpMethod
isHttpMethod(s) ==
    s \in {<<"G", "E", "T">>, <<"P", "U", "T">>, <<"P", "O", "S", "T">>,
           <<"D", "E", "L", "E", "T", "E">>, <<"O", "P", "T", "I", "O", "N", "S">>,
           <<"H", "E", "A", "D">>, <<"P", "A", "T", "C", "H">>, <<"T", "R", "A", "C", "E">>}

RECURSIVE AddOperations(_, _, _, _)
\* the loop over Object.entries(paths) and, inside, over the entries of a
\* path item, from entry j of path item i on: [ok, err, groups]
AddOperations(items, i, j, groups) ==
    IF i > Len(items) THEN [ok |-> TRUE, err |-> NoErr, groups |-> groups]
    ELSE IF j > Len(items[i].methods) THEN AddOperations(items, i + 1, 1, groups)
    ELSE LET entry == items[i].methods[j]
             method == [k \in DOMAIN entry.key |-> CharToUpper(entry.key[k])]
             tags == entry.operation.tags
             operation == [entry.operation EXCEPT
                              !.method = method,
                              !.url = [original |-> items[i].url,
                                       parts |-> ParseUrl(items[i].url, <<>>)]]
         IN IF ~isHttpMethod(method) THEN AddOperations(items, i, j + 1, groups)
            ELSE IF tags.kind # "array" \/ Len(tags.names) # 1
            THEN [ok |-> FALSE,
                  err |-> Err("ExpectedOneTag", "", <<method, items[i].url>>, {}, <<>>),
                  groups |-> groups]
            ELSE AddOperations(items, i, j + 1,
                    IF tags.names[1] \in DOMAIN groups
                    THEN [groups EXCEPT ![tags.names[1]].operations = Append(@, operation)]
                    ELSE groups @@ (tags.names[1] :>
                                      [other |-> {}, operations |-> <<operation>>]))

\* operationsByTag: a group without operations per declared tag [name, other]
\* (a later tag of the same name replaces an earlier one), then the loop
operationsByTag(tags, items) ==
    AddOperations(items, 1, 1,
        [name \in {tags[k].name : k \in DOMAIN tags} |->
            [other |-> tags[CHOOSE k \in DOMAIN tags :
                               tags[k].name = name
                               /\ \A l \in DOMAIN tags : tags[l].name = name => l <= k].other,
             operations |-> <<>>]])

(***************************************************************************)
(* The Api Emitter and the Client Emitter (index.ts, writeApi and          *)
(* writeClient), the loop over the operations of a tag.  What is written   *)
(* for an operation is threaded through the steps of the loop body as      *)
(* [ok, err, imports, method]; method is [name, http, params, query, body, *)
(* returns, route, url]: the method name, the HTTP method, the parameter   *)
(* names, those of them in the query, hasBody, the return type name, the   *)
(* route path registered with express (api) and the calls on a             *)
(* `new UrlBuilder()` (client) as [call, arg].                             *)
(***************************************************************************)
\* getTypeFromContent: [defined, desc]; desc is what getRuntimeType returned
\* or threw, defined = FALSE is the return of undefined
getTypeFromContent(content, imp, ctx) ==
    IF content = <<>> \/ content[1].json = <<>> \/ content[1].json[1].schema = <<>>
    THEN [defined |-> FALSE, desc |-> Resolved(imp, <<>>)]
    ELSE [defined |-> TRUE, desc |-> getRuntimeType(content[1].json[1].schema[1], imp, ctx)]

\* the failure of a step: the error is thrown out of writeApi / writeClient
Aborted(w, imp, err) == [w EXCEPT !.ok = FALSE, !.err = err, !.imports = imp]

\* the start of the loop body: the operation id and the method name,
\* /^\w+$/ or /^(\w+)\.(\w+)$/ with the upper-camel tag before the dot
methodName(tag, operation, imp) ==
    LET id == IF operation.operationId = <<>> THEN <<>> ELSE operation.operationId[1]
        isWord(s) == s # <<>> /\ \A k \in DOMAIN s : IsWordChar(s[k])
        dots == {k \in DOMAIN id : id[k] = "."}
        dot == CHOOSE k \in dots : TRUE
        place == <<operation.method, operation.url.original>>
        w == [ok |-> TRUE, err |-> NoErr, imports |-> imp,
              method |-> [name |-> id, http |-> operation.method, params |-> <<>>,
                          query |-> <<>>, body |-> FALSE, returns |-> <<"void">>, route |-> <<>>,
                          url |-> <<>>]]
    IN IF id = <<>> THEN Aborted(w, imp, Err("ExpectedOperationId", "", place, {}, <<>>))
       ELSE IF isWord(id) THEN w
       ELSE IF /\ Cardinality(dots) = 1
               /\ isWord(SubSeq(id, 1, dot - 1))
               /\ isWord(SubSeq(id, dot + 1, Len(id)))
               /\ SubSeq(id, 1, dot - 1) = tag.upperCamel
       THEN [w EXCEPT !.method.name = SubSeq(id, dot + 1, Len(id))]
       ELSE Aborted(w, imp, Err("OperationIdPrefix", "", place, {}, tag.upperCamel))

\* a variant of the request body step that takes every body as it is
writeRequestBodyUnchecked(emitter, operation, w) ==
    IF ~w.ok \/ operation.requestBody = <<>> THEN w
    ELSE [w EXCEPT !.method.params = Append(@, <<"body">>), !.method.body = TRUE]

\* the request body: a reference is refused; a body whose JSON content has a
\* schema must be required, and becomes the parameter `body` (the api also
\* calls fromJson() for its validator)
writeRequestBody(emitter, operation, w) ==
    LET id == operation.operationId[1]
        body == operation.requestBody[1]
        named(imp) == [w EXCEPT !.imports = imp,
                                !.method.params = Append(@, <<"body">>),
                                !.method.body = TRUE]
        validated(test) == IF ~test.ok THEN Aborted(w, test.imports, test.err)
                           ELSE named(test.imports)
        typed(type) ==
            IF ~type.desc.ok THEN Aborted(w, type.desc.imports, type.desc.err)
            ELSE IF ~type.defined THEN w
            ELSE IF ~body.required
            THEN Aborted(w, type.desc.imports, Err("BodyNotRequired", "", <<id>>, {}, <<>>))
            ELSE IF emitter = "client" THEN named(type.desc.imports)
            ELSE validated(Thunk("fromJson", body.content[1].json[1].schema[1],
                                 addValidate(type.desc.imports, "validate"),
                                 id \o <<".requestBody">>))
    IN IF ~w.ok \/ operation.requestBody = <<>> THEN w
       ELSE IF body.ref
       THEN Aborted(w, w.imports, Err("ReferenceInRequestBody", "", <<id>>, {}, <<>>))
       ELSE typed(getTypeFromContent(body.content, w.imports, id \o <<".requestBody">>))

RECURSIVE writeParameters(_, _, _, _)
\* `for (const parameter of parameters)`, from the i-th parameter on
writeParameters(emitter, operation, i, w) ==
    LET parameter == operation.parameters[i]
        put(written, imp) ==
            IF ~written.desc.ok THEN Aborted(w, imp, written.desc.err)
            ELSE IF emitter = "api" /\ ~written.code.ok
            THEN Aborted(w, imp, written.code.err)
            ELSE writeParameters(emitter, operation, i + 1,
                     [w EXCEPT !.imports = imp,
                               !.method.params = Append(@, parameter.name),
                               !.method.query = IF emitter = "client" /\ parameter.in = "query"
                                                THEN Append(@, parameter.name) ELSE @])
        imported(written) ==
            put(written, IF written.code.ok THEN written.code.imports
                         ELSE written.desc.imports)
    IN IF ~w.ok \/ i > Len(operation.parameters) THEN w
       ELSE imported(IF emitter = "api"
                     THEN writeApiParameter(operation.operationId[1], parameter, w.imports)
                     ELSE writeClientParameter(operation.operationId[1], parameter,
                                               w.imports))

RECURSIVE urlString(_)
\* writeApi: the path registered with express, ":" before each parameter
urlString(parts) ==
    IF parts = <<>> THEN <<>>
    ELSE (IF parts[1].type = "param" THEN <<":">> ELSE <<>>)
         \o parts[1].value \o urlString(Tail(parts))

\* writeClient: the calls chained on `new UrlBuilder()`
urlBuilderCalls(parts, queryParamNames) ==
    [k \in DOMAIN parts |->
        [call |-> IF parts[k].type = "literal" THEN "addLiteral" ELSE "addPathParam",
         arg |-> parts[k].value]]
    \o [k \in DOMAIN queryParamNames |-> [call |-> "addQuery", arg |-> queryParamNames[k]]]

\* a variant of the responses step that takes any responses
writeResponsesUnchecked(emitter, operation, w) == w

\* the responses: exactly the entry 200, not a reference; its JSON schema, if
\* any, is the return type (the api calls toJson() for the response
\* validator, the client fromJson() for the decoder handed to fetch)
writeResponses(emitter, operation, w) ==
    LET id == operation.operationId[1]
        responses == operation.responses
        found == {k \in DOMAIN responses : responses[k].status = "200"}
        response == responses[CHOOSE k \in found : TRUE]
        written == [w EXCEPT !.method.route = IF emitter = "api"
                                              THEN urlString(operation.url.parts) ELSE <<>>,
                             !.method.url = IF emitter = "api" THEN <<>>
                                            ELSE urlBuilderCalls(operation.url.parts,
                                                                 w.method.query)]
        returned(type, json) ==
            IF ~json.ok THEN Aborted(w, json.imports, json.err)
            ELSE [written EXCEPT !.imports = json.imports,
                                 !.method.returns = type.desc.typeName]
        local(imp) == addLocal(addLocal(imp, "", <<"base-client">>, <<"ClientConfig">>,
                                        FALSE).imports,
                               "", <<"base-client">>, <<"UrlBuilder">>, FALSE).imports
        typed(type) ==
            IF ~type.desc.ok THEN Aborted(w, type.desc.imports, type.desc.err)
            ELSE IF ~type.defined
            THEN [written EXCEPT !.imports = IF emitter = "api" THEN type.desc.imports
                                             ELSE local(type.desc.imports)]
            ELSE returned(type,
                     Thunk(IF emitter = "api" THEN "toJson" ELSE "fromJson",
                           response.content[1].json[1].schema[1],
                           IF emitter = "api" THEN addValidate(type.desc.imports, "validate")
                           ELSE local(type.desc.imports),
                           id \o <<".200.responseBody">>))
    IN IF ~w.ok THEN w
       ELSE IF found = {}
       THEN Aborted(w, w.imports, Err("Expected200Response", "", <<id>>, {}, <<>>))
       ELSE IF Len(responses) > 1
       THEN Aborted(w, w.imports, Err("UnexpectedResponses", "", <<>>, {}, <<>>))
       ELSE IF response.ref
       THEN Aborted(w, w.imports, Err("ReferenceInResponse", "", <<id>>, {}, <<>>))
       ELSE typed(getTypeFromContent(response.content, w.imports,
                                     id \o <<".200.responseBody">>))

\* the body of `for (const {...} of operations)`, to its last statement:
\* the check of the properties that were not destructured
writeOperation(emitter, tag, operation, imp) ==
    LET checked(w) ==
            IF w.ok /\ operation.other # {}
            THEN Aborted(w, w.imports, Err("UnexpectedOperationProps", "",
                                           operation.operationId, operation.other, <<>>))
            ELSE w
    IN checked(writeResponses(emitter, operation,
                   writeParameters(emitter, operation, 1,
                       writeRequestBody(emitter, operation,
                           methodName(tag, operation, imp)))))

RECURSIVE WriteOperations(_, _, _, _, _, _)
\* the loop over the operations of a tag, from the i-th on: [ok, err,
\* imports, methods]
WriteOperations(emitter, tag, ops, i, imp, methods) ==
    LET next(w) ==
            IF ~w.ok
            THEN [ok |-> FALSE, err |-> w.err, imports |-> w.imports, methods |-> methods]
            ELSE WriteOperations(emitter, tag, ops, i + 1, w.imports,
                                 Append(methods, w.method))
    IN IF i > Len(ops)
       THEN [ok |-> TRUE, err |-> NoErr, imports |-> imp, methods |-> methods]
       ELSE next(writeOperation(emitter, tag, ops[i], imp))

\* writeApi(tag, tagDescription, operations): the imports of the class file,
\* then the loop
writeApi(tag, ops) ==
    WriteOperations("api", tag, ops, 1,
        addGlobal(addGlobal(addGlobal(addLocal(NewImports("api"), "", <<"base-api">>,
                                               <<"BaseApi">>, FALSE).imports,
                                      <<"express">>, <<"Express">>, FALSE).imports,
                            <<"express">>, <<"Request">>, FALSE).imports,
                  <<"express">>, <<"Response">>, FALSE).imports,
        <<>>)

\* writeClient(tag, tagDescription, operations)
writeClient(tag, ops) ==
    WriteOperations("client", tag, ops, 1,
        addLocal(NewImports("client"), "", <<"base-client">>, <<"BaseClient">>,
                 FALSE).imports,
        <<>>)

(***************************************************************************)
(* StringBuilder (string-builder.ts) and the text of a class file.  The    *)
(* parts of a builder are [kind, text, parts]: a "string" with its text,   *)
(* the "imports" of the file, which is the Import Set itself and no text,  *)
(* or a nested "builder" with its parts.                                   *)
(***************************************************************************)
\* StringBuilder.append of a string
append(b, text) == Append(b, [kind |-> "string", text |-> text, parts |-> <<>>])

\* an append that would take the text of the Import Set as it is
appendImportsRendered(b, imp) ==
    Append(b, [kind |-> "string", text |-> toString(imp), parts |-> <<>>])

\* StringBuilder.append of an Import Set: the object is pushed on the parts
appendImports(b, imp) == Append(b, [kind |-> "imports", text |-> <<>>, parts |-> <<>>])

\* StringBuilder.append of a StringBuilder
appendBuilder(b, nested) == Append(b, [kind |-> "builder", text |-> <<>>, parts |-> nested])

RECURSIVE builderToString(_, _)
\* StringBuilder.toString: this.parts.join(""), which calls toString of
\* every part that is no string; imp is the Import Set of the file as it is
\* at this call
builderToString(b, imp) ==
    Join([k \in DOMAIN b |->
             IF b[k].kind = "string" THEN b[k].text
             ELSE IF b[k].kind = "imports" THEN toString(imp)
             ELSE builderToString(b[k].parts, imp)], <<>>)

\* the names of the methods of a class, one part each
MethodParts(methods) == [k \in DOMAIN methods |-> append(<<>>, methods[k].name)[1]]

\* writeClient from `const b = new StringBuilder()` to `return b.toString()`:
\* the Import Set is appended when it is new, the class follows, and the
\* operations have registered their imports when the text is made
clientFile(class) ==
    builderToString(
        append(append(append(append(appendImports(<<>>, NewImports("client")),
                                    <<"export class ">>),
                             class.name),
                      <<"Client extends BaseClient {">>)
               \o MethodParts(class.methods),
               <<"}">>),
        class.imports)

\* writeApi from `const b = new StringBuilder()` to `return b.toString()`:
\* the Import Set is appended after the loop over the operations, and the
\* methods are in a builder of their own
apiFile(class) ==
    builderToString(
        append(appendBuilder(append(append(append(appendImports(<<>>, class.imports),
                                                  <<"export abstract class ">>),
                                           class.name),
                                    <<"Api extends BaseApi {">>),
                             MethodParts(class.methods)),
               <<"}}">>),
        class.imports)

(***************************************************************************)
(* The tag loop of main (index.ts) and its inputs: the declared tags and   *)
(* the `paths` of a document.                                              *)
(***************************************************************************)
\* the most operations of one path item among the inputs
MaxOps == 2

\* Object.entries(operationsByTag).sort(...): the tag names in the order of
\* the loop
SortedTags(groups) ==
    CHOOSE s \in [1..Cardinality(DOMAIN groups) -> DOMAIN groups] :
        \A i, j \in DOMAIN s : i < j => localeCompare(s[i], s[j])

\* one turn of the tag loop for the tag `tagName` (a single word, which
\* Identifier.fromWords does not split) after `classes` were written
writeTag(emitter, tagName, group, classes) ==
    LET tag == IdentifierOf(<<tagName>>)
        thrown(err) == [ok |-> FALSE, err |-> err, classes |-> classes]
        class(written) ==
            IF ~written.ok THEN thrown(written.err)
            ELSE [ok |-> TRUE, err |-> NoErr,
                  classes |-> Append(classes, [tag |-> tagName, name |-> tag.upperCamel,
                                               file |-> tag.kebab,
                                               imports |-> written.imports,
                                               methods |-> written.methods])]
    IN IF group.other # {}
       THEN thrown(Err("UnexpectedTagProps", "", <<tagName>>, group.other, <<>>))
       ELSE IF group.operations = <<>>
       THEN thrown(Err("TagWithoutOperations", "", <<tagName>>, {}, <<>>))
       ELSE class(IF emitter = "api" THEN writeApi(tag, group.operations)
                  ELSE writeClient(tag, group.operations))

PetTag == <<"p", "e", "t">>
StoreTag == <<"s", "t", "o", "r", "e">>
WidgetUrl == <<"/", "w", "i", "d", "g", "e", "t", "s", "/", "{", "w", "i", "d", "g", "e", "t", "I", "d", "}", "/", "p", "a", "r", "t", "s", "/", "{", "p", "a", "r", "t", "I", "d", "}">>
HealthUrl == <<"/", "h", "e", "a", "l", "t", "h">>
PetUrl == <<"/", "p", "e", "t", "s", "/", "{", "p", "e", "t", "I", "d", "}">>

JsonContent(s) == <<[json |-> <<[schema |-> s]>>]>>
Response(status, content) == [status |-> status, ref |-> FALSE, content |-> content]
RequestBody(required, content) == [ref |-> FALSE, required |-> required, content |-> content]

\* GET-like operation `getA` of the tag pet that answers with a User
Operation ==
    [tags |-> [kind |-> "array", names |-> <<PetTag>>],
     operationId |-> <<<<"g", "e", "t", "A">>>>,
     parameters |-> <<>>,
     requestBody |-> <<>>,
     responses |-> <<Response("200", JsonContent(<<RefTo(UserName)>>))>>,
     other |-> {},
     method |-> <<>>,
     url |-> [original |-> <<>>, parts |-> <<>>]]

\* the operations found first in a path item: Operation with one key changed
Operations ==
    {[Operation EXCEPT !.tags = tags] :
        tags \in {[kind |-> "absent", names |-> <<>>], [kind |-> "string", names |-> <<>>],
                  [kind |-> "array", names |-> <<>>],
                  [kind |-> "array", names |-> <<PetTag, StoreTag>>],
                  [kind |-> "array", names |-> <<StoreTag>>]}}
    \cup {[Operation EXCEPT !.operationId = id] :
            id \in {<<>>, <<<<"P", "e", "t", ".", "g", "e", "t", "A">>>>, <<<<"S", "t", "o", "r", "e", ".", "g", "e", "t", "A">>>>, <<<<"g", "e", "t", "-", "a">>>>, <<<<"p", "e", "t", ".", "g", "e", "t", "A">>>>,
                    <<<<"P", "e", "t", ".", "g", "e", "t", ".", "A">>>>, <<<<"g", "e", "t", "B">>>>}}
    \cup {[Operation EXCEPT !.requestBody = <<body>>] :
            body \in {[RequestBody(TRUE, <<>>) EXCEPT !.ref = TRUE]}
                     \cup {RequestBody(required, content) :
                             required \in BOOLEAN,
                             content \in {<<>>, <<[json |-> <<>>]>>, JsonContent(<<>>),
                                          JsonContent(<<RefTo(WidgetName)>>),
                                          JsonContent(<<StringFormat("date")>>),
                                          JsonContent(<<[NoSchema EXCEPT
                                                           !.ref = << <<RefPrefix>> >>]>>)}}}
    \cup {[Operation EXCEPT !.responses = responses] :
            responses \in {<<>>,
                           <<Response("404", <<>>)>>,
                           <<Response("default", <<>>)>>,
                           <<Response("200", JsonContent(<<RefTo(UserName)>>)),
                             Response("404", <<>>)>>,
                           <<Response("200", <<>>), Response("default", <<>>)>>,
                           <<[Response("200", <<>>) EXCEPT !.ref = TRUE]>>,
                           <<Response("200", <<>>)>>,
                           <<Response("200", <<[json |-> <<>>]>>)>>,
                           <<Response("200", JsonContent(<<>>))>>,
                           <<Response("200", JsonContent(<<ArrayOf(RefTo(StatusName))>>))>>,
                           <<Response("200", JsonContent(<<[NoSchema EXCEPT
                                                   !.ref = << <<RefPrefix>> >>]>>))>>,
                           <<Response("200", JsonContent(<<TypeSchema("")>>))>>}}
    \cup {[Operation EXCEPT !.parameters = parameters] :
            parameters \in {<<Parameter("path", TRUE, <<StringFormat("")>>)>>,
                            <<Parameter("path", TRUE, <<TypeSchema("integer")>>),
                              Parameter("query", FALSE, <<StringFormat("")>>)>>,
                            <<Parameter("header", FALSE, <<StringFormat("")>>)>>,
                            <<Parameter("query", FALSE, <<>>)>>,
                            <<[Parameter("query", FALSE, <<>>) EXCEPT !.ref = TRUE]>>}}
    \cup {[Operation EXCEPT !.other = {"deprecated"}]}

\* the operations found after the first one in a path item
LaterOperations ==
    {Operation,
     [Operation EXCEPT !.operationId = <<<<"P", "e", "t", ".", "g", "e", "t", "A">>>>],
     [Operation EXCEPT !.operationId = <<<<"g", "e", "t", "B">>>>],
     [Operation EXCEPT !.tags.names = <<StoreTag>>],
     [Operation EXCEPT !.responses = <<Response("200", <<>>), Response("404", <<>>)>>]}

\* the keys of the operations of a path item, by position
MethodKeys ==
    <<<<"g", "e", "t">>, <<"P", "o", "s", "t">>, <<"D", "E", "L", "E", "T", "E">>, <<"p", "u", "t">>, <<"p", "a", "t", "c", "h">>, <<"H", "e", "a", "d">>, <<"o", "p", "t", "i", "o", "n", "s">>, <<"t", "r", "a", "c", "e">>>>

\* the `paths` of the documents: one path item, a key that is no HTTP method
\* in front of its operations or not, and a second path item or not
Paths ==
    LET entry(k, operation) == [key |-> MethodKeys[k], operation |-> operation]
        methods ==
            UNION {{[k \in 1..n |-> entry(k, IF k = 1 THEN first ELSE later[k - 1])] :
                      first \in Operations, later \in [1..(n - 1) -> LaterOperations]} :
                   n \in 1..MaxOps}
        items ==
            {[url |-> url, methods |-> <<entry(1, Operation)>>] :
               url \in {WidgetUrl, <<"/", "a", "/", "{", "i", "d", "}", "b">>, <<"{", "a", "}", "{", "b", "}">>, <<"/", "a", "/", "{", "}">>, <<"/", "a", "/", "{", "b", "-", "c", "}", "/", "{", "d", "}">>,
                        <<"/", "{", "a", "}", "/">>, <<"/", "a", "{", "b">>}}
            \cup {[url |-> HealthUrl, methods |-> lead \o m] :
                    m \in methods,
                    lead \in {<<>>, <<[key |-> <<"p", "a", "r", "a", "m", "e", "t", "e", "r", "s">>, operation |-> Operation]>>}}
        second ==
            {<<>>, <<[url |-> PetUrl, methods |-> <<entry(2, Operation)>>]>>,
             <<[url |-> PetUrl,
                methods |-> <<entry(1, [Operation EXCEPT !.tags.names = <<StoreTag>>])>>]>>}
    IN {<<item>> \o more : item \in items, more \in second}

\* the `tags` of the documents
Tags ==
    {<<>>, <<[name |-> PetTag, other |-> {}]>>,
     <<[name |-> StoreTag, other |-> {}], [name |-> PetTag, other |-> {}]>>,
     <<[name |-> PetTag, other |-> {"externalDocs"}]>>}

OpInit ==
    /\ pc = "start"
    /\ mode \in {"api", "client"}
    /\ schemas = Document
    /\ enumTypes = ClassifiedEnums(Document)
    /\ models = writeModels(Document)
    /\ schema = NoSchema
    /\ context = <<>>
    /\ imports = NewImports(mode)
    /\ desc = NoDesc
    /\ position = ""
    /\ code = NoCode
    /\ path = <<>>
    /\ input = VUndefined
    /\ outcome = NoOutcome
    /\ paths = <<>>
    /\ operations = NoOperations
    /\ emitted = NoClasses
    /\ call = NoCall
    /\ rendered = <<>>
    /\ dir = NoDir
    /\ log = <<>>

\* main: operationsByTag is built from the tags and the paths of the document
ExtractOperations ==
    /\ pc = "start"
    /\ \E tags \in Tags, items \in Paths :
          /\ paths' = items
          /\ operations' = operationsByTag(tags, items)
    /\ pc' = IF operations'.ok THEN "extracted" ELSE "aborted"
    /\ UNCHANGED <<call, rendered, dir, log, mode, schemas, models, enumTypes, schema, context,
                   imports, desc,
                   position, code, path, input, outcome, emitted>>

\* main: one turn of the loop over the sorted tags, which writes the api or
\* client class of the tag
WriteTag ==
    /\ pc = "extracted"
    /\ Len(emitted.classes) < Cardinality(DOMAIN operations.groups)
    /\ LET tagName == SortedTags(operations.groups)[Len(emitted.classes) + 1]
       IN emitted' = writeTag(mode, tagName, operations.groups[tagName], emitted.classes)
    /\ pc' = IF ~emitted'.ok THEN "aborted"
             ELSE IF Len(emitted'.classes) = Cardinality(DOMAIN operations.groups)
             THEN "written" ELSE "extracted"
    /\ rendered' = IF ~emitted'.ok THEN rendered
                   ELSE IF mode = "api" THEN apiFile(emitted'.classes[Len(emitted'.classes)])
                   ELSE clientFile(emitted'.classes[Len(emitted'.classes)])
    /\ UNCHANGED <<call, dir, log, mode, schemas, models, enumTypes, schema, context,
                   imports, desc, position, code, path, input, outcome, paths, operations>>

OpNext == ExtractOperations \/ WriteTag

OpSpec == OpInit /\ [][OpNext]_vars

(***************************************************************************)
(* The Import Set of one file: any sequence of addGlobal, addLocal and     *)
(* addValidate calls, and the rendering of the set (specification          *)
(* ImportSpec).                                                            *)
(***************************************************************************)
\* ImportFolder; "" is undefined, the root of the output directory
Folders == {"model", "api", "client", ""}

\* the names registered: they differ by case, by letter, or not at all
ImportNames == {<<"A">>, <<"b">>, <<"B">>}

\* the files of the output directory that are imported
LocalFiles == {<<"p", "e", "t">>}

ImportInit ==
    /\ pc = "imports"
    /\ mode = "api"
    /\ schemas = Document
    /\ enumTypes = ClassifiedEnums(Document)
    /\ models = writeModels(Document)
    /\ schema = NoSchema
    /\ context = <<>>
    /\ imports \in {NewImports(f) : f \in Folders}
    /\ desc = NoDesc
    /\ position = ""
    /\ code = NoCode
    /\ path = <<>>
    /\ input = VUndefined
    /\ outcome = NoOutcome
    /\ paths = <<>>
    /\ operations = NoOperations
    /\ emitted = NoClasses
    /\ call = NoCall
    /\ rendered = <<>>
    /\ dir = NoDir
    /\ log = <<>>

\* a call on the Import Set and what became of it: result is the module path
\* the call registered under
CallOf(op, folder, file, name, def, ok, result) ==
    [op |-> op, folder |-> folder, file |-> file, name |-> name, def |-> def, ok |-> ok,
     result |-> result]

\* imports.addGlobal(file, name, def)
AddGlobal ==
    /\ pc = "imports"
    /\ Len(log) < MaxCalls
    /\ \E name \in ImportNames \ {<<"B">>}, def \in BOOLEAN :
          LET done(r) ==
                  /\ imports' = r.imports
                  /\ call' = CallOf("addGlobal", "", <<"express">>, name, def, r.ok,
                                    <<"express">>)
          IN done(addGlobal(imports, <<"express">>, name, def))
    /\ log' = Append(log, call')
    /\ UNCHANGED <<pc, rendered, dir, mode, schemas, models, enumTypes, schema, context, desc,
                   position, code, path, input, outcome, paths, operations, emitted>>

\* imports.addLocal(folder, file, name, def)
AddLocal ==
    /\ pc = "imports"
    /\ Len(log) < MaxCalls
    /\ \E folder \in Folders, file \in LocalFiles, name \in ImportNames \ {<<"A">>},
          def \in BOOLEAN :
          LET done(r) ==
                  /\ imports' = r.imports
                  /\ call' = CallOf("addLocal", folder, file, name, def, r.ok,
                                    relative(imports.folder, folder) \o <<"/">> \o file)
          IN done(addLocal(imports, folder, file, name, def))
    /\ log' = Append(log, call')
    /\ UNCHANGED <<pc, rendered, dir, mode, schemas, models, enumTypes, schema, context, desc,
                   position, code, path, input, outcome, paths, operations, emitted>>

\* imports.addValidate(name)
AddValidate ==
    /\ pc = "imports"
    /\ Len(log) < MaxCalls
    /\ imports' = addValidate(imports, "validate")
    /\ call' = CallOf("addValidate", "", <<"type-utils">>, <<"validate">>, FALSE, TRUE,
                      relative(imports.folder, "") \o <<"/", "type-utils">>)
    /\ log' = Append(log, call')
    /\ UNCHANGED <<pc, rendered, dir, mode, schemas, models, enumTypes, schema, context, desc,
                   position, code, path, input, outcome, paths, operations, emitted>>

\* imports.toString()
ImportsToString ==
    /\ pc = "imports"
    /\ rendered' = toString(imports)
    /\ call' = CallOf("toString", "", <<>>, <<>>, FALSE, TRUE, rendered')
    /\ UNCHANGED <<pc, imports, log, dir, mode, schemas, models, enumTypes, schema, context,
                   desc, position, code, path, input, outcome, paths, operations, emitted>>

ImportNext == AddGlobal \/ AddLocal \/ AddValidate \/ ImportsToString

ImportSpec == ImportInit /\ [][ImportNext]_vars

(***************************************************************************)
(* Properties of the generator (specification Spec).                       *)
(***************************************************************************)
\* getRuntimeType was called on `schema` with `context`, and desc is what
\* it returned or threw
ResolverCalled ==
    /\ pc # "start"
    /\ desc.err.kind \notin {"ReferenceInParameter", "ParamNotPathOrQuery",
                             "MissingParameterSchema"}

\* the node selects one of the branches of the resolver
HasActiveBranch(s) ==
    \/ s.ref # <<>>
    \/ s.oneOf # <<>>
    \/ s.type \in {"boolean", "integer", "number", "object", "array"}
    \/ s.type = "string"
       /\ s.format \in {"", "email", "password", "uuid", "date", "date-time"}

\* the keys that branch recognises
RecognisedKeys(s) ==
    IF s.ref # <<>> THEN {"$ref"}
    ELSE IF s.oneOf # <<>> THEN {"oneOf"}
    ELSE IF s.type = "string" /\ s.format \in {"date", "date-time"}
    THEN {"description", "type", "format"}
    ELSE IF s.type = "string"
    THEN {"description", "type", "format", "minLength", "maxLength"}
    ELSE IF s.type \in {"integer", "number"} /\ s.format = "big"
    THEN {"description", "type", "format"}
    ELSE IF s.type = "object" THEN {"description", "type", "additionalProperties"}
    ELSE IF s.type = "array" THEN {"description", "type", "items"}
    ELSE {"description", "type"}

UnexpectedKeys(s) == Keys(s) \ RecognisedKeys(s)

RECURSIVE SomeNodeHasUnexpectedKeys(_)
\* the node, or a node nested in it, has a branch and a key it does not recognise
SomeNodeHasUnexpectedKeys(s) ==
    \/ HasActiveBranch(s) /\ UnexpectedKeys(s) # {}
    \/ s.ref = <<>> /\ s.oneOf # <<>>
       /\ \E i \in DOMAIN s.oneOf[1] : SomeNodeHasUnexpectedKeys(s.oneOf[1][i])
    \/ s.ref = <<>> /\ s.oneOf = <<>> /\ s.type = "object" /\ s.additionalProperties # <<>>
       /\ SomeNodeHasUnexpectedKeys(s.additionalProperties[1])
    \/ s.ref = <<>> /\ s.oneOf = <<>> /\ s.type = "array" /\ s.items # <<>>
       /\ SomeNodeHasUnexpectedKeys(s.items[1])

\* C1: a schema node handed to getRuntimeType that carries a key its active
\* branch does not recognise makes the call throw, before a descriptor is
\* returned, with a message that names exactly the unexpected keys and the
\* context; a node nested in the schema that carries such a key makes the
\* call throw as well.
C1_UnexpectedKeysFail ==
    ResolverCalled =>
        /\ (HasActiveBranch(schema) /\ UnexpectedKeys(schema) # {}) =>
              /\ ~desc.ok
              /\ desc.err.kind = "UnexpectedProperties"
              /\ desc.err.props = UnexpectedKeys(schema)
              /\ desc.err.context = <<context>>
              /\ code = NoCode
        /\ SomeNodeHasUnexpectedKeys(schema) => ~desc.ok /\ pc \in {"failed", "aborted"}

\* C1, its case: the items of an array carry `pattern`, and the message names
\* the key and the context of the items
C1_Witness ==
    /\ pc = "failed"
    /\ schema = ArrayOf(With(TypeSchema("boolean"), {"pattern"}))
    /\ desc.err.kind = "UnexpectedProperties"
    /\ desc.err.props = {"pattern"}
    /\ desc.err.context = <<context \o <<".items">>>>

RECURSIVE HoldsObjectRefOrMap(_)
\* the schema is a reference to a schema that is not classified as a string
\* enum, or a map, directly or as the items of an array or a branch of a union
HoldsObjectRefOrMap(s) ==
    IF s.ref # <<>> THEN fromCamel(Tail(s.ref[1])).upperCamel \notin enumTypes
    ELSE IF s.oneOf # <<>>
    THEN \E i \in DOMAIN s.oneOf[1] : HoldsObjectRefOrMap(s.oneOf[1][i])
    ELSE IF s.type = "object" THEN TRUE
    ELSE IF s.type = "array" /\ s.items # <<>> THEN HoldsObjectRefOrMap(s.items[1])
    ELSE FALSE

RECURSIVE HoldsRefOrMap(_)
\* the schema is a reference (to any schema) or a map, directly or as the
\* items of an array or a branch of a union
HoldsRefOrMap(s) ==
    IF s.ref # <<>> THEN TRUE
    ELSE IF s.oneOf # <<>> THEN \E i \in DOMAIN s.oneOf[1] : HoldsRefOrMap(s.oneOf[1][i])
    ELSE IF s.type = "object" THEN TRUE
    ELSE IF s.type = "array" /\ s.items # <<>> THEN HoldsRefOrMap(s.items[1])
    ELSE FALSE

\* one turn of the parameter loop has run and the resolver accepted the schema
ParameterResolved == pc \in {"emitted", "aborted"} /\ desc.ok

\* C2 (as the code has it): in api mode a parameter whose schema is a
\* reference to a schema not classified as a string enum, or a map, directly
\* or as array items or union branch, aborts the generation with `Unexpected
\* reference parameter` or `Unexpected map parameter` and the context; a
\* reference to a string enum is accepted as a parameter (testOneOf); in
\* client mode no parameter the resolver accepts aborts the generation.
C2_ObjectRefOrMapParameterAbortsApi ==
    ParameterResolved =>
        /\ (mode = "api" /\ HoldsObjectRefOrMap(schema)) =>
              /\ pc = "aborted"
              /\ code.err.kind \in {"ReferenceParameter", "MapParameter"}
              /\ code.err.context # <<>>
        /\ (mode = "api" /\ ~HoldsObjectRefOrMap(schema) /\ HoldsRefOrMap(schema)) =>
              code.err.kind \notin {"ReferenceParameter", "MapParameter"}
        /\ (mode = "api" /\ schema = RefTo(StatusName)) =>
              /\ pc = "emitted"
              /\ code.expr \in {Thunk("fromJson", schema, imports, context).expr,
                                Ex("opt", <<Thunk("fromJson", schema, imports, context).expr>>)}
        /\ mode = "client" => pc = "emitted"

\* C2, its case: an array of object references as an api parameter
C2_Witness ==
    /\ mode = "api"
    /\ pc = "aborted"
    /\ desc.ok
    /\ schema = ArrayOf(RefTo(UserName))
    /\ code.err.kind = "ReferenceParameter"

\* C2 as stated: every path or query parameter whose schema is a reference
\* (enum or object) or a map, directly or nested, aborts the generation, in
\* api mode and in client mode.
C2_AnyRefOrMapParameterAborts ==
    (/\ ParameterResolved
     /\ \E i \in DOMAIN context : context[i] \in {"path", "query"}
     /\ HoldsRefOrMap(schema))
    => /\ pc = "aborted"
       /\ code.err.kind \in {"ReferenceParameter", "MapParameter"}

\* whether the Import Set holds the named import `name` of module `file`
HasImport(imp, file, name) ==
    \E k \in DOMAIN imp.files :
        imp.files[k].file = file /\ \E n \in DOMAIN imp.files[k].named : imp.files[k].named[n] = name

\* the module paths under which the Import Set files type-utils and a model
TypeUtilsPath(imp) == relative(imp.folder, "") \o <<"/", "type-utils">>
ModelPath(imp, kebab) == relative(imp.folder, "model") \o <<"/">> \o kebab

\* C4: for a reference to a schema classified as a string enum, fromJson()
\* and toJson() return the same call testOneOf(values<Name>) and leave the
\* same Import Set, which holds testOneOf of type-utils and values<Name> of
\* the model file.
C4_EnumSymmetry ==
    (/\ pc = "generated"
     /\ isReference(schema)
     /\ fromCamel(Tail(schema.ref[1])).upperCamel \in enumTypes)
    => LET name == fromCamel(Tail(schema.ref[1]))
           from == Thunk("fromJson", schema, desc.imports, context)
           to == Thunk("toJson", schema, desc.imports, context)
       IN /\ from = to
          /\ position \in {"fromJson", "toJson"} => code = from /\ code = to
          /\ to.expr = [Ex("testOneOf", <<>>) EXCEPT !.name = <<"values">> \o name.upperCamel]
          /\ HasImport(to.imports, TypeUtilsPath(to.imports), <<"testOneOf">>)
          /\ HasImport(to.imports, ModelPath(to.imports, name.kebab),
                       <<"values">> \o name.upperCamel)

\* C4, its case: toJson() of a reference to the enum Status was called
C4_Witness ==
    /\ pc = "generated"
    /\ schema = RefTo(StatusName)
    /\ position = "toJson"
    /\ code.expr.op = "testOneOf"
    /\ code.expr.name = <<"values">> \o StatusName

\* a `type: string` node (no $ref, no oneOf)
IsStringSchema(s) == s.ref = <<>> /\ s.oneOf = <<>> /\ s.type = "string"

\* C5 (as the code has it): for a `type: string` schema every format other
\* than email, password, uuid, date and date-time (or no format) makes the
\* resolution fail with `Unexpected string format` naming the format and
\* the context; with one of those formats and no unexpected key it succeeds.
C5_OtherFormatsFail ==
    (ResolverCalled /\ IsStringSchema(schema)) =>
        /\ schema.format \notin {"", "email", "password", "uuid", "date", "date-time"} =>
              /\ ~desc.ok
              /\ desc.err.kind = "UnexpectedStringFormat"
              /\ desc.err.detail = <<schema.format>>
              /\ desc.err.context = <<context>>
        /\ (/\ schema.format \in {"", "email", "password", "uuid", "date", "date-time"}
            /\ UnexpectedKeys(schema) = {})
           => desc.ok

\* C5, its case: format binary
C5_Witness ==
    /\ pc = "failed"
    /\ IsStringSchema(schema)
    /\ schema.format = "binary"
    /\ desc.err.kind = "UnexpectedStringFormat"

\* C5 as stated: every format other than email, date and date-time (or no
\* format) makes the resolution fail.
C5_OnlyEmailAndDatesResolve ==
    (/\ ResolverCalled
     /\ IsStringSchema(schema)
     /\ schema.format \notin {"", "email", "date", "date-time"})
    => ~desc.ok

(***************************************************************************)
(* Properties of the generated code at run time (specification RunSpec).   *)
(***************************************************************************)
\* the generated expression was called on `input` with `path`
Called == pc \in {"returned", "threw"}

Decoding == Called /\ position \in {"fromJson", "fromJsonParam"}

\* the resolve-time context of branch i of a oneOf at `context`
BranchContext(i) == context \o <<".oneOf[">> \o NumToText(i - 1) \o <<"]">>

\* C3: the type name of a oneOf schema is the type names of its branches
\* joined with " | " in declaration order, and the code of each thunk is
\* `or` over the code of the same thunk of the branches in that order; when
\* no branch throws, the call returns the result of the first branch that
\* succeeds after invoking no branch behind it, and otherwise fails, after
\* invoking every branch, with the branch messages joined by " OR ".
C3_UnionIsOrderedOr ==
    schema.oneOf # <<>> =>
        LET branches == schema.oneOf[1]
            n == Len(branches)
            names == [i \in 1..n |->
                        getRuntimeType(branches[i], NewImports(mode), BranchContext(i)).typeName]
            exprs == [i \in 1..n |->
                        Thunk(position, branches[i], NewImports(mode), BranchContext(i)).expr]
            results == [i \in 1..n |-> Eval(exprs[i], input, path)]
            passing == {i \in 1..n : results[i].success}
            first == CHOOSE i \in passing : \A j \in passing : i <= j
        IN /\ desc.typeName = Join(names, <<" | ">>)
           /\ code.expr = Ex("or", exprs)
           /\ (Called /\ \A i \in 1..n : ~results[i].threw) =>
                 IF passing # {}
                 THEN /\ pc = "returned"
                      /\ outcome.value = results[first].value
                      /\ outcome.tried = first
                 ELSE /\ pc = "threw"
                      /\ outcome.tried = n
                      /\ outcome.message
                            = Join([i \in 1..n |-> results[i].message], <<OrSeparator>>)

\* C3, its case: both branches of oneOf [date, string] accept the input, and
\* the value is the one of the first branch, the second was not invoked
C3_Witness ==
    /\ pc = "returned"
    /\ schema = OneOf(<<StringFormat("date"), StringFormat("")>>)
    /\ position = "fromJson"
    /\ input = VStr(LetterDateText)
    /\ outcome.value.t = "date"
    /\ outcome.tried = 1

\* YYYY-MM-DD
IsDateForm(s) ==
    /\ Len(s) = 10
    /\ \A i \in {1, 2, 3, 4, 6, 7, 9, 10} : IsDigit(s[i])
    /\ s[5] = "-" /\ s[8] = "-"

\* YYYY-MM-DDTHH:MM:SS.mmmZ
IsDateTimeForm(s) ==
    /\ Len(s) = 24
    /\ IsDateForm(SubSeq(s, 1, 10))
    /\ \A i \in {12, 13, 15, 16, 18, 19, 21, 22, 23} : IsDigit(s[i])
    /\ s[11] = "T" /\ s[14] = ":" /\ s[17] = ":" /\ s[20] = "." /\ s[24] = "Z"

\* the units a string in one of the two forms names
UnitsOf(s) ==
    LET unit(a, b) == <<DigitsValue(SubSeq(s, a, b))>>
    IN IF Len(s) = 10
       THEN <<unit(1, 4), unit(6, 7), unit(9, 10), <<0>>, <<0>>, <<0>>, <<0>>>>
       ELSE <<unit(1, 4), unit(6, 7), unit(9, 10), unit(12, 13), unit(15, 16),
              unit(18, 19), unit(21, 23)>>

\* C6 as stated: the decoder of `format: date` accepts a string exactly when
\* it has the form YYYY-MM-DD, the decoder of `format: date-time` exactly
\* when it has the 24-character form YYYY-MM-DDTHH:MM:SS.mmmZ; an accepted
\* string decodes to that instant in UTC, every other input is rejected.
C6_DateDecodersAcceptIsoForms ==
    (Decoding /\ schema \in {StringFormat("date"), StringFormat("date-time")}) =>
        LET formed == /\ input.t = "str"
                      /\ IF schema.format = "date" THEN IsDateForm(input.s)
                         ELSE IsDateTimeForm(input.s)
        IN /\ outcome.success <=> formed
           /\ outcome.success => outcome.value = DateTimeUtc(UnitsOf(input.s))

\* C6, the failing case: the date decoder was called on 2020-01-02
C6_Witness ==
    /\ Decoding
    /\ schema = StringFormat("date")
    /\ input = VStr(DateText)
    /\ ~outcome.success

\* a plain object all of whose values are integral native numbers
IsIntegerObject(v) ==
    v.t = "obj" /\ \A i \in DOMAIN v.entries :
                      v.entries[i].v.t = "num" /\ ~v.entries[i].v.frac /\ ~v.entries[i].v.nan

\* C7 as stated: the decoder of {type: object, additionalProperties: {type:
\* integer}} accepts every JSON object whose values are integral JSON numbers
\* and yields a map with the same keys and values.
C7_IntegerMapDecodes ==
    (/\ Called
     /\ position = "fromJson"
     /\ schema = MapOf(TypeSchema("integer"))
     /\ IsIntegerObject(input))
    => /\ outcome.success
       /\ outcome.value.t = "map"
       /\ [i \in DOMAIN outcome.value.entries |-> outcome.value.entries[i].k]
             = [i \in DOMAIN input.entries |-> input.entries[i].k]
       /\ \A i \in DOMAIN input.entries :
             outcome.value.entries[i].v.n = input.entries[i].v.n

\* C7, the failing case: the decoder was called on {"a": 1, "b": 2}
C7_Witness ==
    /\ Called
    /\ position = "fromJson"
    /\ schema = MapOf(TypeSchema("integer"))
    /\ input = ObjectOf(<<VNum(1, FALSE), VNum(2, FALSE)>>)
    /\ ~outcome.success

\* C8 as stated: testMap rejects every input that is not a plain object
\* (null, a scalar, an array); only the entries of a plain object are passed
\* to the value decoder.
C8_MapDecoderRejectsNonObjects ==
    (/\ Called
     /\ position = "fromJson"
     /\ code.expr.op = "testMap"
     /\ input.t # "obj")
    => ~outcome.success

\* C8, the failing case: the decoder of a map of strings was called on ["a"]
C8_Witness ==
    /\ Called
    /\ position = "fromJson"
    /\ schema = MapOf(StringFormat(""))
    /\ input = VArr(<<VStr(<<"a">>)>>)
    /\ outcome.success
    /\ outcome.value = VMap(<<Entry(<<"0">>, VStr(<<"a">>))>>)

\* C9: the fromJson of an array schema is testArray and rejects every input
\* that is no array; its fromJsonParam is testParamArray, which accepts an
\* array all of whose elements the item decoder accepts, yielding the
\* decoded elements, and a value that is no array and that the item decoder
\* accepts, yielding the one-element array of the decoded value, and rejects
\* a value that is no array and that the item decoder rejects.
C9_ArrayDecoders ==
    (Called /\ schema.ref = <<>> /\ schema.oneOf = <<>> /\ schema.type = "array") =>
        LET item == code.expr.args[1]
            elements == [i \in DOMAIN input.elems |->
                            Eval(item, input.elems[i], addIndex(path, i - 1))]
            single == Eval(item, input, path)
        IN /\ position = "fromJson" =>
                /\ code.expr.op = "testArray"
                /\ input.t # "arr" =>
                      /\ pc = "threw"
                      /\ outcome.message = Expected(path, "an array").message
           /\ position = "fromJsonParam" =>
                /\ code.expr.op = "testParamArray"
                /\ (input.t = "arr" /\ \A i \in DOMAIN elements : elements[i].success) =>
                      /\ pc = "returned"
                      /\ outcome.value = VArr([i \in DOMAIN elements |-> elements[i].value])
                /\ (input.t # "arr" /\ single.success) =>
                      /\ pc = "returned"
                      /\ outcome.value = VArr(<<single.value>>)
                /\ (input.t # "arr" /\ ~single.success) => pc = "threw"

\* C9, its case: the parameter decoder of an array of integers was called on
\* the single string "1"
C9_Witness ==
    /\ pc = "returned"
    /\ position = "fromJsonParam"
    /\ schema = ArrayOf(TypeSchema("integer"))
    /\ input = VStr(<<"1">>)
    /\ outcome.value = VArr(<<VBig(1, FALSE)>>)

\* the index (from 1) of the first element of elems that is no string, or 0
FirstNonString(elems) ==
    IF \A i \in DOMAIN elems : elems[i].t = "str" THEN 0
    ELSE CHOOSE i \in DOMAIN elems :
            elems[i].t # "str" /\ \A j \in 1..(i - 1) : elems[j].t = "str"

\* the input is a Widget whose name is valid and whose tags hold a value
\* that is no string
IsWidgetWithInvalidTag ==
    /\ input.t = "obj"
    /\ Property(input, NameKey).t = "str"
    /\ Property(input, TagsKey).t = "arr"
    /\ FirstNonString(Property(input, TagsKey).elems) # 0

\* the paths named by a failure message
MessagePaths ==
    {outcome.message[i].path :
        i \in {j \in DOMAIN outcome.message : outcome.message[j] # OrSeparator}}

\* C10 (as the code has it): the message of a failed decoding names the
\* path handed to the decoder followed by: the model name and the property
\* name as one segment each, `[i]` appended to the last segment for element
\* i of an array, the key as one segment for an entry of a map, and nothing
\* for a branch of a union.  The decoder of Widget fed an invalid element i
\* of tags names `Widget.tags[i]`.
C10_MessagePaths ==
    (Called /\ position = "fromJson" /\ ~outcome.success /\ ~outcome.threw) =>
        /\ (schema = RefTo(WidgetName) /\ IsWidgetWithInvalidTag) =>
              LET i == FirstNonString(Property(input, TagsKey).elems)
              IN MessagePaths
                    = {ContextPath(path \o <<WidgetName,
                                             TagsKey \o <<"[">> \o NumToText(i - 1) \o <<"]">>>>)}
        /\ (schema = ArrayOf(StringFormat("")) /\ input.t = "arr") =>
              LET i == FirstNonString(input.elems)
              IN MessagePaths = {ContextPath(addIndex(path, i - 1))}
        /\ (schema = ArrayOf(ArrayOf(StringFormat(""))) /\ input.t = "arr"
            /\ \A j \in DOMAIN input.elems : input.elems[j].t = "arr") =>
              MessagePaths
                 = {ContextPath(addIndex(addIndex(path, 0),
                                         FirstNonString(input.elems[1].elems) - 1))}
        /\ (schema = MapOf(StringFormat("")) /\ input.t = "obj") =>
              \E j \in DOMAIN input.entries :
                 MessagePaths = {ContextPath(Append(path, input.entries[j].k))}
        /\ (/\ schema.oneOf # <<>>
            /\ \A j \in DOMAIN schema.oneOf[1] :
                  schema.oneOf[1][j].type \in {"string", "boolean", "integer"}) =>
              MessagePaths = {ContextPath(path)}

\* C10, its case: a Widget whose second tag is no string
C10_Witness ==
    /\ pc = "threw"
    /\ schema = RefTo(WidgetName)
    /\ position = "fromJson"
    /\ path = <<>>
    /\ IsWidgetWithInvalidTag
    /\ FirstNonString(Property(input, TagsKey).elems) = 2
    /\ MessagePaths = {WidgetName \o <<".">> \o TagsKey \o <<"[", "1", "]">>}

\* C10 as stated: the decoder nested at Widget, tags, items fed an invalid
\* leaf names exactly the path Widget.tags.items
C10_PathNamesItems ==
    (/\ Called
     /\ position = "fromJson"
     /\ schema = RefTo(WidgetName)
     /\ IsWidgetWithInvalidTag)
    => /\ ~outcome.success
       /\ MessagePaths = {ContextPath(path \o <<WidgetName, TagsKey, <<"items">>>>)}

\* the input is a Widget with a valid name and no other property than owner
IsWidgetWithOwner(owner) ==
    \/ isUndefined(owner) /\ input = VObj(<<Entry(NameKey, VStr(<<"a">>))>>)
    \/ input = VObj(<<Entry(NameKey, VStr(<<"a">>)), Entry(<<"o", "w", "n", "e", "r">>, owner)>>)

IsValueOfType ==
    \/ schema = TypeSchema("boolean") /\ input.t = "bool"
    \/ schema = TypeSchema("number") /\ input.t = "num" /\ ~input.nan
    \/ schema = TypeSchema("integer") /\ input.t = "num" /\ ~input.nan /\ ~input.frac
    \/ schema = StringFormat("") /\ input.t = "str"
    \/ schema \in {StringFormat("date"), StringFormat("date-time")}
       /\ input.t = "date" /\ ~input.nan
    \/ schema = RefTo(StatusName) /\ input \in {VStr(<<"A">>), VStr(<<"B">>)}

\* C12 as stated: for a boolean, number, integer, string, date, date-time or
\* enum schema, decoding what the encoder returned for a value of the type
\* succeeds and returns that value.
C12_RoundTrip ==
    (pc = "roundtrip" /\ IsValueOfType) => outcome.success /\ outcome.value = input

\* C12, the failing case: the DateTime 2020-01-02 is encoded to the text
\* 2020-01-02, which the date decoder rejects
C12_Witness ==
    /\ pc = "roundtrip"
    /\ schema = StringFormat("date")
    /\ input = VDate(<<2020, 1, 2, 0, 0, 0, 0>>)
    /\ ~outcome.success
    /\ outcome.message = Expected(path, "an ISO date").message

(***************************************************************************)
(* Further properties of the generator (specification Spec).               *)
(***************************************************************************)
\* a $ref is `#/components/schemas/` followed by one or more word characters
IsComponentRef(ref) ==
    /\ ref[1] = "#/components/schemas/"
    /\ Len(ref) >= 2
    /\ \A i \in 2..Len(ref) :
          ref[i] \in Range(UpperLetters) \cup Range(LowerLetters) \cup Range(Digits) \cup {"_"}

\* the names referred to by the resolver's inputs, in upper camel and in kebab
CasingsOf(name) ==
    IF name = <<"u", "s", "e", "r", "N", "a", "m", "e">>
    THEN [upperCamel |-> <<"U", "s", "e", "r", "N", "a", "m", "e">>,
          kebab |-> <<"u", "s", "e", "r", "-", "n", "a", "m", "e">>]
    ELSE [upperCamel |-> name, kebab |-> [i \in DOMAIN name |-> CharToLower(name[i])]]

\* C13: getRuntimeType on a reference (a node with no other key than $ref)
\* whose $ref is not `#/components/schemas/<Name>`, Name one or more word
\* characters, throws an error that quotes the $ref, and returns no
\* descriptor; on a well-formed $ref it returns a descriptor whose type name
\* is the upper-camel form of Name, and the Import Set then holds the named
\* import of that symbol from the file <kebab of Name> of the model folder.
C13_References ==
    (ResolverCalled /\ isReference(schema) /\ Keys(schema) = {"$ref"}) =>
        LET ref == schema.ref[1]
            name == CasingsOf(Tail(ref))
        IN /\ ~IsComponentRef(ref) =>
                /\ ~desc.ok
                /\ desc.err.kind = "MalformedRef"
                /\ desc.err.detail = ref
                /\ code = NoCode
                /\ pc \in {"failed", "aborted"}
           /\ IsComponentRef(ref) =>
                /\ desc.ok
                /\ desc.typeName = name.upperCamel
                /\ HasImport(desc.imports, ModelPath(desc.imports, name.kebab),
                             name.upperCamel)
                /\ HasImport(imports, <<"../", "model", "/">> \o name.kebab, name.upperCamel)

\* C13, its case: the reference #/components/schemas/userName was resolved
C13_Witness ==
    /\ pc = "resolved"
    /\ schema = RefTo(<<"u", "s", "e", "r", "N", "a", "m", "e">>)
    /\ desc.typeName = <<"U", "s", "e", "r", "N", "a", "m", "e">>
    /\ HasImport(imports, <<"../", "model", "/", "u", "s", "e", "r", "-", "n", "a", "m", "e">>,
                 <<"U", "s", "e", "r", "N", "a", "m", "e">>)

(***************************************************************************)
(* Properties of the operation extractor and of the emitters               *)
(* (specification OpSpec).                                                 *)
(***************************************************************************)
\* the error that ended the generation
FatalError == IF ~operations.ok THEN operations.err ELSE emitted.err

\* the message of the error interpolates a place: a context (operation id,
\* method and path, tag, or the resolver's context string), or the operation
\* id the parameter errors end with
NamesPlace(err) ==
    \/ err.context # <<>>
    \/ /\ err.kind \in {"ReferenceInParameter", "ParamNotPathOrQuery", "MissingParameterSchema"}
       /\ err.detail # <<>>

\* C14: every fatal error raised while the operations are extracted and the
\* classes written carries a message that names where it occurred (operation
\* id, method and path, or the schema context)
C14_ErrorsCarryContext == pc = "aborted" => NamesPlace(FatalError)

\* the operation with the responses 200 and 404 was refused with
\* `Unexpected responses of operation`, which names no operation
C14_Witness ==
    /\ pc = "aborted"
    /\ emitted.err = Err("UnexpectedResponses", "", <<>>, {}, <<>>)
    /\ \E i \in DOMAIN paths : \E j \in DOMAIN paths[i].methods :
          Len(paths[i].methods[j].operation.responses) = 2

\* the key of a path item entry is one of the eight HTTP methods, in any case
IsMethodKey(key) ==
    ToLowerCase(key) \in {<<"g", "e", "t">>, <<"p", "u", "t">>, <<"p", "o", "s", "t">>,
                          <<"d", "e", "l", "e", "t", "e">>,
                          <<"o", "p", "t", "i", "o", "n", "s">>, <<"h", "e", "a", "d">>,
                          <<"p", "a", "t", "c", "h">>, <<"t", "r", "a", "c", "e">>}

\* the path item entries <<i, j>> of the document that are operations
MethodEntries ==
    {e \in UNION {{<<i, j>> : j \in DOMAIN paths[i].methods} : i \in DOMAIN paths} :
        IsMethodKey(paths[e[1]].methods[e[2]].key)}

\* the operation of the entry e declares exactly one tag
HasOneTag(e) ==
    /\ paths[e[1]].methods[e[2]].operation.tags.kind = "array"
    /\ Len(paths[e[1]].methods[e[2]].operation.tags.names) = 1

\* the operation of the entry e is found in the group of the tag g
InGroup(e, g) ==
    \E k \in DOMAIN operations.groups[g].operations :
        LET operation == operations.groups[g].operations[k]
        IN /\ operation.url.original = paths[e[1]].url
           /\ ToLowerCase(operation.method) = ToLowerCase(paths[e[1]].methods[e[2]].key)
           /\ operation.operationId = paths[e[1]].methods[e[2]].operation.operationId
           /\ operation.tags = paths[e[1]].methods[e[2]].operation.tags

\* C15: the extraction succeeds exactly when every operation (an entry whose
\* key is one of the eight HTTP methods) declares exactly one tag; an
\* operation without `tags`, with tags that are no list, with an empty list
\* or with two tags makes it fail with an error that names the method and
\* the path of such an operation; on success every operation is in the
\* group of its tag and in no other group
C15_ExactlyOneTag ==
    pc # "start" =>
        /\ operations.ok <=> \A e \in MethodEntries : HasOneTag(e)
        /\ ~operations.ok =>
              \E e \in MethodEntries :
                  /\ ~HasOneTag(e)
                  /\ operations.err.kind = "ExpectedOneTag"
                  /\ operations.err.context =
                        <<[k \in DOMAIN paths[e[1]].methods[e[2]].key |->
                              CharToUpper(paths[e[1]].methods[e[2]].key[k])],
                          paths[e[1]].url>>
        /\ operations.ok =>
              \A e \in MethodEntries :
                  {g \in DOMAIN operations.groups : InGroup(e, g)}
                  = {paths[e[1]].methods[e[2]].operation.tags.names[1]}

\* the operation `get` of /health with the tags pet and store was refused
\* with an error that names GET and /health
C15_Witness ==
    /\ pc = "aborted"
    /\ operations.err = Err("ExpectedOneTag", "", <<<<"G", "E", "T">>, HealthUrl>>, {}, <<>>)
    /\ \E e \in MethodEntries :
          paths[e[1]].methods[e[2]].operation.tags.names = <<PetTag, StoreTag>>

\* the operations of all groups, as extracted
ExtractedOperations ==
    UNION {{operations.groups[g].operations[k] : k \in DOMAIN operations.groups[g].operations} :
           g \in DOMAIN operations.groups}

RECURSIVE RenderParts(_)
\* the parts of a URL rendered back: {name} for a parameter, the text of a
\* literal
RenderParts(parts) ==
    IF parts = <<>> THEN <<>>
    ELSE (IF parts[1].type = "param" THEN <<"{">> \o parts[1].value \o <<"}">>
          ELSE parts[1].value)
         \o RenderParts(Tail(parts))

\* the template holds a placeholder {name} with a name of word characters
HasPlaceholder(url) ==
    \E p, q \in DOMAIN url :
        /\ url[p] = "{" /\ url[q] = "}" /\ q > p + 1
        /\ \A k \in (p + 1)..(q - 1) : IsWordChar(url[k])

\* C16: the parts of every extracted operation, rendered in order, give the
\* template back; a template without placeholder is one literal part;
\* literals are never empty and never adjacent; and
\* /widgets/{widgetId}/parts/{partId} parses to literal "/widgets/", param
\* widgetId, literal "/parts/", param partId
C16_UrlPartsLossless ==
    \A operation \in ExtractedOperations :
        LET url == operation.url
        IN /\ RenderParts(url.parts) = url.original
           /\ ~HasPlaceholder(url.original)
                 => url.parts = <<[type |-> "literal", value |-> url.original]>>
           /\ \A k \in DOMAIN url.parts :
                 /\ url.parts[k].value # <<>>
                 /\ url.parts[k].type = "literal" /\ k > 1 => url.parts[k - 1].type = "param"
           /\ url.original = WidgetUrl
                 => url.parts =
                      <<[type |-> "literal", value |-> <<"/", "w", "i", "d", "g", "e", "t", "s", "/">>],
                        [type |-> "param", value |-> <<"w", "i", "d", "g", "e", "t", "I", "d">>],
                        [type |-> "literal", value |-> <<"/", "p", "a", "r", "t", "s", "/">>],
                        [type |-> "param", value |-> <<"p", "a", "r", "t", "I", "d">>]>>

\* the operation of /widgets/{widgetId}/parts/{partId} was extracted with
\* four parts
C16_Witness ==
    /\ pc = "extracted"
    /\ \E operation \in ExtractedOperations :
          operation.url.original = WidgetUrl /\ Len(operation.url.parts) = 4

\* the names express binds for a registered path, in order: a name is the
\* longest run of word characters after a ":" (the syntax of express route
\* paths, which is not part of this repository)
RouteKeys(route) ==
    LET starts == {p \in DOMAIN route :
                     route[p] = ":" /\ p < Len(route) /\ IsWordChar(route[p + 1])}
        end(p) == CHOOSE q \in p + 1..Len(route) :
                     /\ \A k \in p + 1..q : IsWordChar(route[k])
                     /\ q = Len(route) \/ ~IsWordChar(route[q + 1])
        order == CHOOSE s \in [1..Cardinality(starts) -> starts] :
                     \A i, j \in DOMAIN s : i < j => s[i] < s[j]
    IN [i \in DOMAIN order |-> SubSeq(route, order[i] + 1, end(order[i]))]

\* the names the client method of the operation hands to addPathParam, in
\* order
PathParamNames(operation) ==
    LET isPathParam(c) == c.call = "addPathParam"
        calls == SelectSeq(urlBuilderCalls(operation.url.parts, <<>>), isPathParam)
    IN [i \in DOMAIN calls |-> calls[i].arg]

\* C17: for every operation the route registered by the api class binds the
\* same parameter names, in the same order, as the client method fills in
\* when it builds the URL from the same parts (so that the client's URL is
\* matched with each parameter bound to the value the client was given)
C17_RouteBindsClientParameters ==
    mode = "api" =>
        \A c \in DOMAIN emitted.classes : \A m \in DOMAIN emitted.classes[c].methods :
            RouteKeys(emitted.classes[c].methods[m].route)
            = PathParamNames(operations.groups[emitted.classes[c].tag].operations[m])

\* the api class of the operation of /a/{id}b was written: it registers the
\* path /a/:idb, which binds `idb`, while the client fills in `id`
C17_Witness ==
    /\ mode = "api"
    /\ pc = "written"
    /\ \E c \in DOMAIN emitted.classes : \E m \in DOMAIN emitted.classes[c].methods :
          /\ emitted.classes[c].methods[m].route = <<"/", "a", "/", ":", "i", "d", "b">>
          /\ operations.groups[emitted.classes[c].tag].operations[m].url.original
             = <<"/", "a", "/", "{", "i", "d", "}", "b">>
          /\ PathParamNames(operations.groups[emitted.classes[c].tag].operations[m])
             = << <<"i", "d">> >>

\* the operations whose method was written, each with its method: the m-th
\* method of a class is written for the m-th operation of the tag
WrittenOperations ==
    UNION {{[operation |-> operations.groups[emitted.classes[c].tag].operations[m],
             method |-> emitted.classes[c].methods[m]] :
              m \in DOMAIN emitted.classes[c].methods} :
           c \in DOMAIN emitted.classes}

\* the content holds an "application/json" media type with a schema
HasJsonSchema(content) ==
    content # <<>> /\ content[1].json # <<>> /\ content[1].json[1].schema # <<>>

\* C18 (as stated): in api and in client mode, a method is written for an
\* operation that declares a request body only if the body has
\* `required: true`
C18_BodyMustBeRequired ==
    \A w \in WrittenOperations :
        w.operation.requestBody # <<>> => w.operation.requestBody[1].required

\* C18 (amended): in api and in client mode, a method is written for an
\* operation that declares a request body only if the body is no reference
\* and, when its content has an application/json schema, has
\* `required: true` (the method then takes the parameter `body`); a body
\* without application/json schema is passed over, required or not, and the
\* method takes no body.  The error `Body is not required` names an
\* operation with such a body.
C18_JsonBodyMustBeRequired ==
    /\ \A w \in WrittenOperations :
          w.operation.requestBody # <<>> =>
              /\ ~w.operation.requestBody[1].ref
              /\ HasJsonSchema(w.operation.requestBody[1].content)
                    => w.operation.requestBody[1].required
              /\ w.method.body <=> HasJsonSchema(w.operation.requestBody[1].content)
    /\ pc = "aborted" /\ emitted.err.kind = "BodyNotRequired" =>
          \E operation \in ExtractedOperations :
              /\ emitted.err.context = operation.operationId
              /\ operation.requestBody # <<>>
              /\ HasJsonSchema(operation.requestBody[1].content)
              /\ ~operation.requestBody[1].required

\* the generation was aborted with `Body is not required for operation getA`
C18_Witness ==
    /\ pc = "aborted"
    /\ emitted.err = Err("BodyNotRequired", "", << <<"g", "e", "t", "A">> >>, {}, <<>>)
    /\ \E operation \in ExtractedOperations :
          /\ operation.requestBody # <<>>
          /\ ~operation.requestBody[1].required

\* C19 (as stated): a method is written for an operation only if its
\* responses are exactly one entry 200 that has application/json content
C19_Exactly200WithJson ==
    \A w \in WrittenOperations :
        /\ Len(w.operation.responses) = 1
        /\ w.operation.responses[1].status = "200"
        /\ w.operation.responses[1].content # <<>>
        /\ w.operation.responses[1].content[1].json # <<>>

\* C19 (amended): a method is written for an operation only if its responses
\* are exactly one entry 200 that is no reference; the entry needs no
\* application/json content: without a JSON schema the method returns
\* Promise<void>, with one it returns the type of the schema.  A missing 200
\* entry and an entry besides 200 each abort the generation.
C19_Exactly200 ==
    /\ \A w \in WrittenOperations :
          /\ Len(w.operation.responses) = 1
          /\ w.operation.responses[1].status = "200"
          /\ ~w.operation.responses[1].ref
          /\ w.method.returns = <<"void">>
                <=> ~HasJsonSchema(w.operation.responses[1].content)
    /\ pc = "aborted" /\ emitted.err.kind = "Expected200Response" =>
          \E operation \in ExtractedOperations :
              /\ emitted.err.context = operation.operationId
              /\ \A k \in DOMAIN operation.responses : operation.responses[k].status # "200"
    /\ pc = "aborted" /\ emitted.err.kind = "UnexpectedResponses" =>
          \E operation \in ExtractedOperations :
              /\ Len(operation.responses) > 1
              /\ \E k \in DOMAIN operation.responses : operation.responses[k].status = "200"

\* a method that returns Promise<void> was written for an operation whose
\* only response is a 200 entry without content
C19_Witness ==
    /\ pc = "written"
    /\ \E w \in WrittenOperations :
          /\ w.operation.responses = <<Response("200", <<>>)>>
          /\ w.method.returns = <<"void">>

\* C20: no class is written with two methods of the same name: operations
\* of one tag whose ids are the same once the prefix `<Tag>.` is stripped
\* make the generation fail
C20_UniqueOperationIds ==
    \A c \in DOMAIN emitted.classes :
        \A m, n \in DOMAIN emitted.classes[c].methods :
            emitted.classes[c].methods[m].name = emitted.classes[c].methods[n].name => m = n

\* the class of the tag pet was written with two methods getA, for the
\* operations getA and Pet.getA
C20_Witness ==
    /\ pc = "written"
    /\ \E c \in DOMAIN emitted.classes :
          /\ emitted.classes[c].tag = PetTag
          /\ Len(emitted.classes[c].methods) = 2
          /\ \A m \in DOMAIN emitted.classes[c].methods :
                emitted.classes[c].methods[m].name = <<"g", "e", "t", "A">>
          /\ operations.groups[PetTag].operations[1].operationId = << <<"g", "e", "t", "A">> >>
          /\ operations.groups[PetTag].operations[2].operationId
             = << <<"P", "e", "t", ".", "g", "e", "t", "A">> >>

(***************************************************************************)
(* Further properties of the generated code at run time (specification     *)
(* RunSpec).                                                               *)
(***************************************************************************)
\* C21: when the server answered with a JSON value and the operation
\* declares a JSON response type, the promise of the client method resolves
\* to the decoded value if the JSON is valid for the type, and rejects if it
\* is not
C21_ClientValidatesResponse ==
    pc = "fetched" =>
        IF Eval(code.expr, input, <<>>).success
        THEN outcome.success /\ outcome.value = Eval(code.expr, input, <<>>).value
        ELSE outcome.threw

\* the client method of an operation that answers with a string was handed
\* the JSON "a": its promise resolved to the object {success: true,
\* value: "a"}, not to "a"
C21_Witness ==
    /\ pc = "fetched"
    /\ schema = StringFormat("")
    /\ input = VStr(<<"a">>)
    /\ outcome.success
    /\ outcome.value = VObj(<<Entry(<<"s", "u", "c", "c", "e", "s", "s">>, VBool(TRUE)),
                               Entry(<<"v", "a", "l", "u", "e">>, VStr(<<"a">>))>>)

\* the hex digits
IsHexDigit(c) == IsDigit(c) \/ c \in {"a", "b", "c", "d", "e", "f", "A", "B", "C", "D", "E", "F"}

\* the canonical text of a UUID: 36 characters, hyphens at the places 9, 14,
\* 19 and 24, hex digits everywhere else
IsCanonicalUuid(s) ==
    /\ Len(s) = 36
    /\ \A i \in DOMAIN s : IF i \in {9, 14, 19, 24} THEN s[i] = "-" ELSE IsHexDigit(s[i])

\* the validator generated for `type: string, format: uuid` was handed a string
UuidValidated ==
    /\ pc \in {"returned", "threw"}
    /\ schema = StringFormat("uuid")
    /\ position = "fromJson"
    /\ input.t = "str"

\* C30: the validator generated for `type: string, format: uuid`,
\* and(testString, testUuid), accepts a string if and only if it is the
\* canonical text of a UUID: 36 characters, hex groups of 8, 4, 4, 4 and 12
\* with hyphens between them
C30_UuidValidatorAcceptsCanonicalTexts ==
    UuidValidated => (outcome.success <=> IsCanonicalUuid(input.s))

\* the validator was handed the canonical text aaaaaaaa-aaaa-aaaa-aaaa-aaaaaaaaaaaa
\* and failed with "... to be a valid UUID"
C30_Witness ==
    /\ UuidValidated
    /\ code.expr = Ex("and", <<Ex("testString", <<>>), Ex("testUuid", <<>>)>>)
    /\ input = VStr(Grouped(CanonicalGroups, "a"))
    /\ ~outcome.success

\* the strings the validator accepts are the hex groups of 12, 4, 4, 4 and 8
UuidValidatorAcceptsReversedGroups ==
    UuidValidated =>
        (outcome.success <=>
            /\ Len(input.s) = 36
            /\ \A i \in DOMAIN input.s :
                   IF i \in {13, 18, 23, 28} THEN input.s[i] = "-" ELSE IsHexDigit(input.s[i]))

(***************************************************************************)
(* main (index.ts): runs of the generator on one output directory          *)
(* (specification MainSpec).  A run is [text, version, mode, outcome,      *)
(* classified, written, files]: the spec text and the version of the       *)
(* generator, how many schemas the classification pass and the model pass  *)
(* have done, and the files the run has written.  A file is [folder,       *)
(* name], folder "" the output directory itself.                           *)
(***************************************************************************)
\* the `version` of package.json
Versions == {"1.0.0", "1.0.1"}

\* an operation of the tag pet that the emitters accept
PetOperation == [Operation EXCEPT !.operationId = <<<<"P", "e", "t", ".", "g", "e", "t", "A">>>>]

\* the `paths` of a spec text: one path item with one operation
PathsOf(operation) ==
    <<[url |-> HealthUrl, methods |-> <<[key |-> MethodKeys[1], operation |-> operation]>>]>>

\* the spec texts, parsed: the schemas in either order, a schema that is
\* neither a string nor an object, an enum without values, an operation
\* without a tag, and an operation without an id
SpecTexts ==
    <<[doc |-> Document, paths |-> PathsOf(PetOperation)],
      [doc |-> <<Document[3], Document[2], Document[1]>>, paths |-> PathsOf(PetOperation)],
      [doc |-> <<Document[1],
                 [name |-> <<"C", "o", "u", "n", "t">>,
                  schema |-> [type |-> "integer", enum |-> <<>>, properties |-> <<>>,
                              required |-> {}]],
                 Document[2]>>,
       paths |-> PathsOf(PetOperation)],
      [doc |-> <<Document[2], [name |-> StatusName, schema |-> EnumSchema(<<>>)]>>,
       paths |-> PathsOf(PetOperation)],
      [doc |-> Document,
       paths |-> PathsOf([Operation EXCEPT !.tags = [kind |-> "absent", names |-> <<>>]])],
      [doc |-> Document, paths |-> PathsOf([Operation EXCEPT !.operationId = <<>>])]>>

\* md5 of `${version}...${specString}`, base64: one digest per version and
\* spec text
Digest(version, text) == <<version, text>>

NewRun(text, version, emitter) ==
    [text |-> text, version |-> version, mode |-> emitter, outcome |-> "running",
     classified |-> 0, written |-> 0, files |-> {}]

File(folder, name) == [folder |-> folder, name |-> name]

\* the run under way, or the last one
ThisRun == log[Len(log)]

\* the position after the n-th turn of the classification loop
AfterAnyClassified(n, doc) == IF doc = <<>> THEN "tags" ELSE "models"

AfterClassified(n, doc) ==
    IF n < Len(doc) THEN "classify" ELSE IF doc = <<>> THEN "tags" ELSE "models"

\* a hash file that is written with the first file of a run
HashWithFirstFile(at, result, digest) == <<digest>>

\* the hash file after a step of a run that began without one: it is
\* written by the step that ends the run without a throw
HashFileAfter(at, result, digest) ==
    IF at = "idle" /\ result = "written" THEN <<digest>> ELSE <<>>

\* writeEnumModel and writeObjectModel: [ok, props]
writeModel(name, s) ==
    IF s.type = "string" THEN [ok |-> s.enum # <<>>, props |-> <<>>]
    ELSE IF s.properties = <<>> THEN [ok |-> FALSE, props |-> <<>>]
    ELSE [ok |-> writeObjectModel(name, s).ok, props |-> writeObjectModel(name, s).props]

MainInit ==
    /\ pc = "idle"
    /\ mode = "api"
    /\ schemas = <<>>
    /\ enumTypes = {}
    /\ models = <<>>
    /\ schema = NoSchema
    /\ context = <<>>
    /\ imports = NewImports("")
    /\ desc = NoDesc
    /\ position = ""
    /\ code = NoCode
    /\ path = <<>>
    /\ input = VUndefined
    /\ outcome = NoOutcome
    /\ paths = <<>>
    /\ operations = NoOperations
    /\ emitted = NoClasses
    /\ call = NoCall
    /\ rendered = <<>>
    /\ dir = NoDir
    /\ log = <<>>

\* main up to the copy of the static files: the hash file is compared, the
\* output directory deleted and made anew, the text parsed and
\* operationsByTag built
StartRun ==
    /\ pc = "idle"
    /\ Len(log) < MaxRuns
    /\ \E text \in DOMAIN SpecTexts, version \in Versions, emitter \in {"api", "client"} :
          /\ mode' = emitter
          /\ enumTypes' = {}
          /\ models' = <<>>
          /\ emitted' = NoClasses
          /\ IF dir.hash = <<Digest(version, text)>>
             THEN /\ log' = Append(log, [NewRun(text, version, emitter)
                                            EXCEPT !.outcome = "skipped"])
                  /\ schemas' = <<>>
                  /\ paths' = <<>>
                  /\ operations' = NoOperations
                  /\ pc' = "idle"
                  /\ dir' = dir
             ELSE /\ dir' = [files |-> {}, hash |-> <<>>]
                  /\ schemas' = SpecTexts[text].doc
                  /\ paths' = SpecTexts[text].paths
                  /\ operations' = operationsByTag(<<>>, paths')
                  /\ pc' = IF operations'.ok THEN "static" ELSE "idle"
                  /\ log' = Append(log, [NewRun(text, version, emitter)
                                            EXCEPT !.outcome = IF operations'.ok THEN "running"
                                                               ELSE "aborted"])
    /\ UNCHANGED <<call, rendered, schema, context, imports, desc, position, code, path, input,
                   outcome>>

\* a step of the run under way that writes `files` and leaves the run at `next`
Step(next, files, result) ==
    /\ pc' = next
    /\ dir' = [files |-> dir.files \cup files,
               hash |-> HashFileAfter(next, result, Digest(ThisRun.version, ThisRun.text))]
    /\ log' = [log EXCEPT ![Len(log)] =
                  [@ EXCEPT !.outcome = result, !.files = @ \cup files,
                            !.classified = IF pc = "classify" /\ result = "running"
                                           THEN @ + 1 ELSE @,
                            !.written = IF pc = "models" /\ result = "running"
                                        THEN @ + 1 ELSE @]]

\* main: the copy of the static files
WriteStatic ==
    /\ pc = "static"
    /\ Step(AfterClassified(0, schemas),
            {File("", <<"base-", mode>>), File("", <<"type-utils">>)}, "running")
    /\ UNCHANGED <<call, rendered, mode, schemas, models, enumTypes, schema, context, imports,
                   desc, position, code, path, input, outcome, paths, operations, emitted>>

\* main: one turn of the loop that classifies the schemas
Classify ==
    /\ pc = "classify"
    /\ LET entry == schemas[ThisRun.classified + 1]
           ident == fromCamel(entry.name)
       IN IF entry.schema.type \notin {"string", "object"}
          THEN /\ Step("idle", {}, "aborted")
               /\ enumTypes' = enumTypes
          ELSE /\ Step(AfterClassified(ThisRun.classified + 1, schemas), {}, "running")
               /\ enumTypes' = IF entry.schema.type = "string"
                               THEN enumTypes \cup {ident.upperCamel} ELSE enumTypes
    /\ UNCHANGED <<call, rendered, mode, schemas, models, schema, context, imports, desc,
                   position, code, path, input, outcome, paths, operations, emitted>>

\* main: one turn of the loop that writes the model files
WriteModel ==
    /\ pc = "models"
    /\ LET entry == schemas[ThisRun.written + 1]
           ident == fromCamel(entry.name)
           done(w) ==
               IF ~w.ok
               THEN /\ Step("idle", {}, "aborted")
                    /\ models' = models
               ELSE /\ Step(IF ThisRun.written + 1 < Len(schemas) THEN "models" ELSE "tags",
                            {File("model", ident.kebab)}, "running")
                    /\ models' = IF entry.schema.type = "string" THEN models
                                 ELSE [n \in DOMAIN models \cup {ident.upperCamel} |->
                                          IF n = ident.upperCamel THEN w.props ELSE models[n]]
       IN done(writeModel(ident.upperCamel, entry.schema))
    /\ UNCHANGED <<call, rendered, mode, schemas, enumTypes, schema, context, imports, desc,
                   position, code, path, input, outcome, paths, operations, emitted>>

\* main: one turn of the loop over the sorted tags
WriteTagFile ==
    /\ pc = "tags"
    /\ Len(emitted.classes) < Cardinality(DOMAIN operations.groups)
    /\ LET tagName == SortedTags(operations.groups)[Len(emitted.classes) + 1]
           done(w) ==
               /\ emitted' = w
               /\ IF ~w.ok THEN Step("idle", {}, "aborted")
                  ELSE Step(IF Len(w.classes) < Cardinality(DOMAIN operations.groups)
                            THEN "tags" ELSE "index",
                            {File(mode, IdentifierOf(<<tagName>>).kebab)}, "running")
       IN done(writeTag(mode, tagName, operations.groups[tagName], emitted.classes))
    /\ UNCHANGED <<call, rendered, mode, schemas, models, enumTypes, schema, context, imports,
                   desc, position, code, path, input, outcome, paths, operations>>

\* main: register-apis.ts or clients.ts
WriteIndex ==
    /\ pc = "index"
    /\ Step("hash", {File("", IF mode = "api" THEN <<"register-apis">> ELSE <<"clients">>)},
            "running")
    /\ UNCHANGED <<call, rendered, mode, schemas, models, enumTypes, schema, context, imports,
                   desc, position, code, path, input, outcome, paths, operations, emitted>>

\* main: the last thing to do is write the hash to the hash file
WriteHash ==
    /\ pc = "hash"
    /\ Step("idle", {}, "written")
    /\ UNCHANGED <<call, rendered, mode, schemas, models, enumTypes, schema, context, imports,
                   desc, position, code, path, input, outcome, paths, operations, emitted>>

MainNext == StartRun \/ WriteStatic \/ Classify \/ WriteModel \/ WriteTagFile \/ WriteIndex
            \/ WriteHash

MainSpec == MainInit /\ [][MainNext]_vars

(***************************************************************************)
(* The route handler writeApi generates for an operation, and              *)
(* BaseApi.handleResponse (specification HandlerSpec).  What the handler   *)
(* does is a sequence of events [do, what, value]: "validate" of a         *)
(* variable (value: the failure message, <<>> if none), "invoke" of the    *)
(* abstract method (value: the arguments as [name, value]), "status",      *)
(* "set", and "send" of a body (<<>> is none).  An error is [class,        *)
(* status, body, message].                                                 *)
(***************************************************************************)
Event(do, what, value) == [do |-> do, what |-> what, value |-> value]

TypeError(message) ==
    [class |-> "TypeError", status |-> 0, body |-> VUndefined, message |-> message]

\* JSONbig.stringify: the JSON text of a value, and undefined (<<>>) of
\* undefined
Stringify(v) == IF v = VUndefined THEN <<>> ELSE <<[json |-> v]>>

\* paramLines, with the request body in the last place
HandlerLinesBodyLast(operation) ==
    LET id == operation.operationId[1]
        body == IF operation.requestBody = <<>> THEN <<>>
                ELSE <<[name |-> <<"body">>, from |-> "body",
                        test |-> Thunk("fromJson",
                                       operation.requestBody[1].content[1].json[1].schema[1],
                                       NewImports("api"), id \o <<".requestBody">>).expr,
                        context |-> <<id, <<"requestBody">>>>]>>
    IN [k \in DOMAIN operation.parameters |->
           [name |-> operation.parameters[k].name,
            from |-> IF operation.parameters[k].in = "path" THEN "params"
                     ELSE operation.parameters[k].in,
            test |-> writeApiParameter(id, operation.parameters[k], NewImports("api")).code.expr,
            context |-> <<id, <<operation.parameters[k].in>>, operation.parameters[k].name>>]]
       \o body

\* paramLines of writeApi: `const body = validate(...)(req.body, [...]);`
\* and then, per parameter, `const p = validate(...)(req.params.p, [...]);`
HandlerLines(operation) ==
    LET id == operation.operationId[1]
        body == IF operation.requestBody = <<>> THEN <<>>
                ELSE <<[name |-> <<"body">>, from |-> "body",
                        test |-> Thunk("fromJson",
                                       operation.requestBody[1].content[1].json[1].schema[1],
                                       NewImports("api"), id \o <<".requestBody">>).expr,
                        context |-> <<id, <<"requestBody">>>>]>>
    IN body
       \o [k \in DOMAIN operation.parameters |->
             [name |-> operation.parameters[k].name,
              from |-> IF operation.parameters[k].in = "path" THEN "params"
                       ELSE operation.parameters[k].in,
              test |-> writeApiParameter(id, operation.parameters[k],
                                         NewImports("api")).code.expr,
              context |-> <<id, <<operation.parameters[k].in>>, operation.parameters[k].name>>]]

\* req.body, req.params.p, req.query.q
Read(request, line) == IF line.from = "body" THEN request.body ELSE request.values[line.name]

RECURSIVE ValidateLines(_, _, _, _, _)
\* the lines of paramLines from the i-th on: validate(test)(thing, context)
\* returns the value or throws new TypeError(result.message)
ValidateLines(lines, request, i, events, args) ==
    IF i > Len(lines) THEN [ok |-> TRUE, error |-> TypeError(<<>>), events |-> events,
                            args |-> args]
    ELSE LET next(r) ==
                 IF r.success
                 THEN ValidateLines(lines, request, i + 1,
                                    Append(events, Event("validate", lines[i].name, <<>>)),
                                    Append(args, [name |-> lines[i].name, value |-> r.value]))
                 ELSE [ok |-> FALSE, error |-> TypeError(r.message),
                       events |-> Append(events, Event("validate", lines[i].name, r.message)),
                       args |-> args]
         IN next(Eval(lines[i].test, Read(request, lines[i]), lines[i].context))

\* `this.method(args)` and addResponseValidator: what the promise of the
\* handler settles to, [ok, error, value]
Invoke(operation, behaviour) ==
    LET id == operation.operationId[1]
        content == operation.responses[1].content
        checked(r) == IF r.success THEN [ok |-> TRUE, error |-> TypeError(<<>>), value |-> r.value]
                      ELSE [ok |-> FALSE, error |-> TypeError(r.message), value |-> VUndefined]
    IN IF ~behaviour.ok \/ ~getTypeFromContent(content, NewImports("api"), id).defined
       THEN behaviour
       ELSE checked(Eval(Thunk("toJson", content[1].json[1].schema[1], NewImports("api"),
                               id \o <<".200.responseBody">>).expr,
                         behaviour.value, <<id, <<"200">>, <<"responseBody">>>>))

\* BaseApi.handleResponse(res, data)
handleResponse(data, events) ==
    LET sent(body) == IF body # <<>>
                      THEN <<Event("set", <<"Content-Type">>, <<"application/json">>),
                             Event("send", <<>>, body)>>
                      ELSE <<Event("send", <<>>, <<>>)>>
    IN IF data.ok THEN events \o sent(Stringify(data.value))
       ELSE IF data.error.class = "ApiError"
       THEN events \o <<Event("status", <<>>, data.error.status)>>
            \o sent(Stringify(data.error.body))
       ELSE events \o <<Event("status", <<>>, 500)>>
            \o sent(IF data.error.class \in {"TypeError", "Error"}
                    THEN <<[json |-> data.error.message]>>
                    ELSE Stringify(data.error.body))

\* the handler registered for an operation:
\* (req, res) => this.handleResponse(res, (async () => {...})())
Handler(operation, request, behaviour) ==
    LET invoked(v) ==
            IF ~v.ok THEN handleResponse([ok |-> FALSE, error |-> v.error, value |-> VUndefined],
                                        v.events)
            ELSE handleResponse(Invoke(operation, behaviour),
                                Append(v.events,
                                       Event("invoke",
                                             methodName(IdentifierOf(<<PetTag>>), operation,
                                                        NewImports("api")).method.name,
                                             v.args)))
    IN invoked(ValidateLines(HandlerLines(operation), request, 1, <<>>, <<>>))

\* the parameters an operation may declare
DeclaredParameters ==
    <<Parameter("path", TRUE, <<StringFormat("")>>),
      [Parameter("query", FALSE, <<TypeSchema("integer")>>) EXCEPT !.name = <<"q">>],
      [Parameter("query", TRUE, <<TypeSchema("boolean")>>) EXCEPT !.name = <<"r">>]>>

\* the operations of the handlers: with a body of a string or without, and
\* with up to MaxParams of the parameters in any order; they answer with a
\* string
HandlerOperations ==
    {[PetOperation EXCEPT
         !.requestBody = body,
         !.parameters = [k \in DOMAIN order |-> DeclaredParameters[order[k]]],
         !.responses = <<Response("200", JsonContent(<<StringFormat("")>>))>>] :
       body \in {<<>>, <<RequestBody(TRUE, JsonContent(<<StringFormat("")>>))>>},
       order \in UNION {{o \in [1..n -> DOMAIN DeclaredParameters] :
                            \A i, j \in 1..n : o[i] = o[j] => i = j} : n \in 0..MaxParams}}

\* what a request holds for the body and for each parameter
Requests ==
    {[body |-> body, values |-> values] :
       body \in {VStr(<<"a">>), VNum(1, FALSE), VUndefined},
       values \in [{DeclaredParameters[k].name : k \in DOMAIN DeclaredParameters} ->
                     {VStr(<<"1">>), VStr(<<"t", "r", "u", "e">>), VUndefined}]}

\* what the implementation of the abstract method does: it resolves to a
\* string or to a number, or rejects with an ApiError or another Error
Behaviours ==
    {[ok |-> TRUE, error |-> TypeError(<<>>), value |-> VStr(<<"a">>)],
     [ok |-> TRUE, error |-> TypeError(<<>>), value |-> VNum(1, FALSE)],
     [ok |-> FALSE, value |-> VUndefined,
      error |-> [class |-> "ApiError", status |-> 404, body |-> VStr(<<"n", "o">>),
                 message |-> <<>>]],
     [ok |-> FALSE, value |-> VUndefined,
      error |-> [class |-> "Error", status |-> 0, body |-> VUndefined,
                 message |-> <<"d", "o", "w", "n">>]]}

HandlerInit ==
    /\ pc = "listening"
    /\ mode = "api"
    /\ schemas = Document
    /\ enumTypes = ClassifiedEnums(Document)
    /\ models = writeModels(Document)
    /\ schema = NoSchema
    /\ context = <<>>
    /\ imports = NewImports(mode)
    /\ desc = NoDesc
    /\ position = ""
    /\ code = NoCode
    /\ path = <<>>
    /\ input \in Requests
    /\ outcome = NoOutcome
    /\ paths \in {PathsOf(operation) : operation \in HandlerOperations}
    /\ operations = NoOperations
    /\ emitted = NoClasses
    /\ call = NoCall
    /\ rendered = <<>>
    /\ dir = NoDir
    /\ log = <<>>

\* a request arrives at the route of the operation
Handle ==
    /\ pc = "listening"
    /\ \E behaviour \in Behaviours :
          /\ log' = Handler(paths[1].methods[1].operation, input, behaviour)
          /\ call' = IF \E k \in DOMAIN log' : log'[k].do = "invoke"
                     THEN [NoCall EXCEPT !.op = "method", !.ok = behaviour.ok,
                                         !.result = behaviour]
                     ELSE NoCall
    /\ pc' = "responded"
    /\ UNCHANGED <<rendered, dir, mode, schemas, models, enumTypes, schema, context, imports,
                   desc, position, code, path, input, outcome, paths, operations, emitted>>

HandlerNext == Handle

HandlerSpec == HandlerInit /\ [][HandlerNext]_vars

(***************************************************************************)
(* Identifier: a raw name is handed to fromCamel or to fromWords           *)
(* (specification IdSpec).                                                 *)
(***************************************************************************)
\* the characters of the raw names: a lower-case and an upper-case letter,
\* a digit and white space
NameChars == {"a", "B", "1", " "}

\* the raw names: every non-empty string of at most MaxName characters
RawNames == UNION {[1..n -> NameChars] : n \in 1..MaxName}

IdInit ==
    /\ pc = "identifier"
    /\ mode = "api"
    /\ schemas = Document
    /\ enumTypes = ClassifiedEnums(Document)
    /\ models = writeModels(Document)
    /\ schema = NoSchema
    /\ context = <<>>
    /\ imports = NewImports(mode)
    /\ desc = NoDesc
    /\ position = ""
    /\ code = NoCode
    /\ path = <<>>
    /\ input = VUndefined
    /\ outcome = NoOutcome
    /\ paths = <<>>
    /\ operations = NoOperations
    /\ emitted = NoClasses
    /\ call \in {[NoCall EXCEPT !.name = s] : s \in RawNames}
    /\ rendered = <<>>
    /\ dir = NoDir
    /\ log = <<>>

\* Identifier.fromCamel(rawName)
FromCamel ==
    /\ pc = "identifier"
    /\ call' = [call EXCEPT !.op = "fromCamel", !.ok = ~fromCamel(call.name).threw,
                            !.result = fromCamel(call.name)]
    /\ pc' = "identified"
    /\ UNCHANGED <<rendered, dir, log, mode, schemas, models, enumTypes, schema, context,
                   imports, desc, position, code, path, input, outcome, paths, operations,
                   emitted>>

\* Identifier.fromWords(tagName)
FromWords ==
    /\ pc = "identifier"
    /\ call' = [call EXCEPT !.op = "fromWords", !.ok = ~fromWords(call.name).threw,
                            !.result = fromWords(call.name)]
    /\ pc' = "identified"
    /\ UNCHANGED <<rendered, dir, log, mode, schemas, models, enumTypes, schema, context,
                   imports, desc, position, code, path, input, outcome, paths, operations,
                   emitted>>

IdNext == FromCamel \/ FromWords

IdSpec == IdInit /\ [][IdNext]_vars

(***************************************************************************)
(* Properties of the Import Set (specification ImportSpec).                *)
(***************************************************************************)
\* the default aliases the successful calls of l registered for a module path
DefaultAliases(l, file) ==
    {l[k].name : k \in {k \in DOMAIN l : l[k].ok /\ l[k].def /\ Chars(l[k].result) = Chars(file)}}

\* the entries an Import Set holds for a module path
EntriesOf(imp, file) == {k \in DOMAIN imp.files : Chars(imp.files[k].file) = Chars(file)}

\* C22: every module path has at most one default alias; a call that asks
\* for a default alias other than the one registered for its module path
\* fails and leaves the Import Set as it was, and a call that asks for the
\* registered alias again succeeds and changes nothing.
C22_OneDefaultAliasPerPath ==
    [][log' # log =>
        /\ \A k \in DOMAIN log' :
              /\ Cardinality(DefaultAliases(log', log'[k].result)) <= 1
              /\ Cardinality(EntriesOf(imports', log'[k].result)) = 1
              /\ \A e \in EntriesOf(imports', log'[k].result) :
                    {imports'.files[e].def} \ {<<>>} = DefaultAliases(log', log'[k].result)
        /\ (call'.def /\ DefaultAliases(log, call'.result) # {}) =>
              /\ call'.ok = (call'.name \in DefaultAliases(log, call'.result))
              /\ imports' = imports]_vars

\* a call asked for a second default alias of a module path and failed
C22_Witness ==
    /\ call.op = "addLocal"
    /\ call.def
    /\ ~call.ok
    /\ DefaultAliases(log, call.result) = {<<"b">>}
    /\ call.name = <<"B">>

\* the module path of the four-way rule, character by character
FourWayPath(own, target, file) ==
    IF target = own THEN <<".", "/">> \o Chars(file)
    ELSE IF target = "" THEN <<".", ".", "/">> \o Chars(file)
    ELSE IF own = "" THEN <<".", "/">> \o Chars(<<target>>) \o <<"/">> \o Chars(file)
    ELSE <<".", ".", "/">> \o Chars(<<target>>) \o <<"/">> \o Chars(file)

\* the module path a call has to register under
PathOf(own, c) ==
    IF c.op = "addGlobal" THEN Chars(c.file)
    ELSE IF c.op = "addValidate"
    THEN (IF own = "" THEN <<".", "/">> ELSE <<".", ".", "/">>)
         \o <<"t", "y", "p", "e", "-", "u", "t", "i", "l", "s">>
    ELSE FourWayPath(own, c.folder, c.file)

\* C23: addLocal registers the symbol under the module path of the four-way
\* rule (same folder, target root, own folder root, otherwise) and under no
\* other path; addValidate registers under ../type-utils from model, api and
\* client and under ./type-utils from the root.
C23_AddLocalFourWayRule ==
    /\ \A k \in DOMAIN imports.files :
          \E c \in DOMAIN log : Chars(imports.files[k].file) = PathOf(imports.folder, log[c])
    /\ \A c \in DOMAIN log :
          log[c].ok =>
             \E k \in DOMAIN imports.files :
                /\ Chars(imports.files[k].file) = PathOf(imports.folder, log[c])
                /\ IF log[c].def THEN imports.files[k].def = log[c].name
                   ELSE log[c].name \in Range(imports.files[k].named)

\* the api folder imported from the model folder, and the root from a folder
C23_Witness ==
    /\ imports.folder = "api"
    /\ Len(log) = 2
    /\ log[1].op = "addLocal" /\ log[1].folder = "model" /\ log[1].ok
    /\ log[2].op = "addLocal" /\ log[2].folder = "" /\ log[2].ok
    /\ Len(imports.files) = 2

\* the registrations the successful calls of l made: [file, name, def]
Registrations(own, l) ==
    {[file |-> PathOf(own, l[k]), name |-> l[k].name, def |-> l[k].def] :
        k \in {k \in DOMAIN l : l[k].ok}}

\* the members of a set of texts in the order of localeCompare
Ordered(texts) ==
    [k \in 1..Cardinality(texts) |->
        CHOOSE x \in texts : Cardinality({y \in texts : localeCompare(y, x)}) = k - 1]

\* the text a set of registrations has to render as: one statement per
\* module path in the order of the paths, the default alias first, then the
\* names in their order, each once
RenderOf(regs) ==
    LET files == Ordered({r.file : r \in regs})
        names(f) == Ordered({r.name : r \in {r \in regs : r.file = f /\ ~r.def}})
        aliases(f) == {r.name : r \in {r \in regs : r.file = f /\ r.def}}
        def(f) == IF aliases(f) = {} THEN <<>>
                  ELSE <<"default as ">> \o (CHOOSE a \in aliases(f) : TRUE)
                       \o (IF names(f) = <<>> THEN <<>> ELSE <<", ">>)
        statement(f) == <<"import { ">> \o def(f) \o Join(names(f), <<", ">>)
                        \o <<" } from ", "\"">> \o f \o <<"\"", ";">>
    IN <<"\n\n">> \o Join([k \in DOMAIN files |-> statement(files[k])], <<>>) \o <<"\n\n">>

RECURSIVE Replay(_, _)
\* the Import Set after the registrations of a sequence of calls
Replay(imp, calls) ==
    IF calls = <<>> THEN imp
    ELSE Replay(addGlobal(imp, calls[1].result, calls[1].name, calls[1].def).imports,
                Tail(calls))

\* the successful calls of l, in order
Successful(l) ==
    LET F[k \in 0..Len(l)] ==
            IF k = 0 THEN <<>> ELSE IF l[k].ok THEN Append(F[k - 1], l[k]) ELSE F[k - 1]
    IN F[Len(l)]

\* the orders n things can be put in
Orders(n) == {p \in [1..n -> 1..n] : \A i, j \in 1..n : p[i] = p[j] => i = j}

\* C24: the rendered text is a function of the set of registrations: one
\* statement per module path, ordered by path, the names of a statement
\* each once and ordered, the default import first; every order of the same
\* registrations renders the same text; rendering leaves the Import Set as
\* it was, and rendering again yields the same text.
C24_RenderingIsAFunctionOfTheRegistrations ==
    [][call'.op = "toString" =>
        /\ imports' = imports
        /\ Chars(rendered') = Chars(RenderOf(Registrations(imports.folder, log)))
        /\ \A p \in Orders(Len(Successful(log))) :
              toString(Replay(NewImports(imports.folder),
                              [k \in 1..Len(Successful(log)) |-> Successful(log)[p[k]]]))
                 = rendered'
        /\ call.op = "toString" => rendered' = rendered]_vars

\* two module paths registered in the reverse of their order were rendered
C24_Witness ==
    /\ call.op = "toString"
    /\ Len(imports.files) = 2
    /\ localeCompare(imports.files[2].file, imports.files[1].file)
    /\ rendered = toString(imports)
(***************************************************************************)
(* Properties of Identifier (specification IdSpec).                        *)
(***************************************************************************)
\* a name without the white space around it
Trimmed(s) ==
    LET inner == {k \in DOMAIN s : s[k] # " "}
    IN IF inner = {} THEN <<>>
       ELSE SubSeq(s, CHOOSE k \in inner : \A l \in inner : k <= l,
                   CHOOSE k \in inner : \A l \in inner : l <= k)

\* the places of s a word of fromCamel begins at: the first, and every
\* upper-case letter that follows a character that is not one
CamelStarts(s) ==
    {k \in DOMAIN s : k = 1 \/ (s[k] \in Range(UpperLetters) /\ s[k - 1] \notin Range(UpperLetters))}

\* the places of s a word of fromWords begins at: every character other
\* than white space that is the first or follows white space
WordStarts(s) == {k \in DOMAIN s : s[k] # " " /\ (k = 1 \/ s[k - 1] = " ")}

\* the words of s that begin at the places in starts and end before the
\* next of them, without the white space they end in when that separates
WordsAt(s, starts, separated) ==
    LET ordered == [k \in 1..Cardinality(starts) |->
                       CHOOSE b \in starts : Cardinality({c \in starts : c < b}) = k - 1]
        until(k) == IF k = Len(ordered) THEN Len(s) ELSE ordered[k + 1] - 1
        word(k) == SubSeq(s, ordered[k], until(k))
    IN [k \in DOMAIN ordered |-> IF separated THEN Trimmed(word(k)) ELSE word(k)]

\* a word with its letters in lower case
Lowered(w) ==
    [k \in DOMAIN w |->
        IF w[k] \in Range(UpperLetters)
        THEN LowerLetters[CHOOSE i \in DOMAIN UpperLetters : UpperLetters[i] = w[k]]
        ELSE w[k]]

\* a word with its letters in lower case and then its first in upper case
Capitalised(w) ==
    [k \in DOMAIN w |->
        IF k = 1 /\ Lowered(w)[k] \in Range(LowerLetters)
        THEN UpperLetters[CHOOSE i \in DOMAIN LowerLetters : LowerLetters[i] = Lowered(w)[k]]
        ELSE Lowered(w)[k]]

\* the four casings the claim derives from a list of words
CasingsOfWords(words) ==
    [lowerCamel |-> Join([k \in DOMAIN words |->
                             IF k = 1 THEN Lowered(words[k]) ELSE Capitalised(words[k])], <<>>),
     upperCamel |-> Join([k \in DOMAIN words |-> Capitalised(words[k])], <<>>),
     display |-> Join(words, <<" ">>),
     kebab |-> Join([k \in DOMAIN words |-> Lowered(words[k])], <<"-">>),
     threw |-> FALSE]

\* C25: for every non-empty raw name fromCamel yields the four casings of
\* the words that begin at the transitions from a character that is not an
\* upper-case letter to one that is, and fromWords those of the words that
\* white space separates: lowerCamel, upperCamel, display and kebab.
C25_IdentifierCasings ==
    pc = "identified" =>
       /\ call.ok
       /\ call.result =
             CasingsOfWords(IF call.op = "fromCamel"
                            THEN WordsAt(Trimmed(call.name), CamelStarts(Trimmed(call.name)),
                                         FALSE)
                            ELSE WordsAt(Trimmed(call.name), WordStarts(Trimmed(call.name)),
                                         TRUE))

\* a raw name of white space only was handed to fromWords, which threw
C25_Witness ==
    /\ pc = "identified"
    /\ call.op = "fromWords"
    /\ call.name = <<" ">>
    /\ ~call.ok

\* the raw names that hold a character other than white space have the
\* casings of their words
CasingsOfNamesWithACharacter ==
    (pc = "identified" /\ Trimmed(call.name) # <<>>) =>
       /\ call.ok
       /\ call.result =
             CasingsOfWords(IF call.op = "fromCamel"
                            THEN WordsAt(Trimmed(call.name), CamelStarts(Trimmed(call.name)),
                                         FALSE)
                            ELSE WordsAt(Trimmed(call.name), WordStarts(Trimmed(call.name)),
                                         TRUE))
(***************************************************************************)
(* Properties of main (specification MainSpec).                            *)
(***************************************************************************)
\* a generated expression without the opt(...) around it
WithoutOpt(e) == IF e.op = "opt" THEN e.args[1] ELSE e

\* the schema the document declares under a name
Declared(name) == schemas[CHOOSE i \in DOMAIN schemas : schemas[i].name = name].schema

\* C26: once a run has written a model, api or client file, the
\* classification pass has run over every schema and the registry holds
\* exactly the names of the string schemas; and in every model file written,
\* a property that refers to a schema is validated as an enum (testOneOf)
\* exactly if that schema is a string schema, wherever the document
\* declares it.
C26_ClassifiedBeforeEmitted ==
    (log # <<>> /\ \E f \in ThisRun.files : f.folder # "") =>
       /\ ThisRun.classified = Len(schemas)
       /\ \A i \in DOMAIN schemas :
             (schemas[i].name \in enumTypes) <=> (schemas[i].schema.type = "string")
       /\ \A name \in DOMAIN models :
             \A k \in DOMAIN Declared(name).properties :
                LET property == Declared(name).properties[k]
                IN property.schema.ref # <<>> =>
                      /\ models[name][k].key = property.name
                      /\ (WithoutOpt(models[name][k].test).op = "testOneOf")
                            <=> (Declared(Tail(property.schema.ref[1])).type = "string")

\* the model file of Widget was written before that of Status, which the
\* document declares last, and its property status is checked as an enum
C26_Witness ==
    /\ pc = "models"
    /\ schemas[1].name = WidgetName
    /\ schemas[3].name = StatusName
    /\ ThisRun.written = 1
    /\ WidgetName \in DOMAIN models
    /\ \E k \in DOMAIN models[WidgetName] :
          /\ models[WidgetName][k].key = <<"s", "t", "a", "t", "u", "s">>
          /\ WithoutOpt(models[WidgetName][k].test).op = "testOneOf"

\* the files of a complete output for a spec text and a mode
CompleteOutput(text, emitter) ==
    {[folder |-> "", name |-> <<"base-", emitter>>],
     [folder |-> "", name |-> <<"type-utils">>],
     [folder |-> "", name |-> IF emitter = "api" THEN <<"register-apis">> ELSE <<"clients">>],
     [folder |-> emitter, name |-> <<"p", "e", "t">>]}
    \cup {[folder |-> "model", name |-> Lowered(SpecTexts[text].doc[i].name)] :
            i \in DOMAIN SpecTexts[text].doc}

\* C27: a run whose digest is the one in the hash file changes nothing; any
\* other run first leaves the output directory empty, without hash file;
\* the hash file is written by the last step of a run only, when every
\* other file of the output is there; so a hash file stands for a complete
\* output of its spec text, and after a run that aborted there is none.
C27_HashFileWrittenLast ==
    [][log' # log =>
        LET run == log'[Len(log')]
            digest == <<run.version, run.text>>
        IN /\ (Len(log') > Len(log) /\ dir.hash = <<digest>>) =>
                 /\ dir' = dir
                 /\ run.outcome = "skipped"
           /\ (Len(log') > Len(log) /\ dir.hash # <<digest>>) =>
                 /\ dir' = [files |-> {}, hash |-> <<>>]
                 /\ run.outcome # "skipped"
           /\ (dir'.hash # dir.hash /\ dir'.hash # <<>>) =>
                 /\ dir'.hash = <<digest>>
                 /\ dir.files = CompleteOutput(run.text, run.mode)
                 /\ dir'.files = dir.files
                 /\ run.outcome = "written"
                 /\ pc' = "idle"
           /\ Len(log') = Len(log) => dir.hash = <<>>
           /\ dir'.hash # <<>> =>
                 \E emitter \in {"api", "client"} :
                    dir'.files = CompleteOutput(dir'.hash[1][2], emitter)
           /\ run.outcome = "aborted" => dir'.hash = <<>>]_vars

\* a run wrote its output and its hash file, and a second run, of another
\* spec text, aborted after it had written files
C27_Witness ==
    /\ Len(log) = 2
    /\ log[1].outcome = "written"
    /\ log[2].outcome = "aborted"
    /\ log[2].files # {}
    /\ dir.hash = <<>>
(***************************************************************************)
(* Properties of the route handler (specification HandlerSpec).            *)
(***************************************************************************)
\* the operation of the route
Routed == paths[1].methods[1].operation

\* the variables of the handler in the order the claim gives them: the body,
\* then the parameters as declared
DeclaredOrder ==
    (IF Routed.requestBody = <<>> THEN <<>> ELSE << <<"body">> >>)
    \o [k \in DOMAIN Routed.parameters |-> Routed.parameters[k].name]

\* the places of the log at which the handler did `do`
Did(do) == {k \in DOMAIN log : log[k].do = do}

\* C28: the body and then the parameters are validated in the declared
\* order before the abstract method is invoked, with the arguments in that
\* order; after a failed validation the method is not invoked and exactly
\* one response is sent, with status 500 and the message of the failure as
\* its JSON body; another status is set for an ApiError only, with its body.
C28_ValidatedBeforeInvoked ==
    pc = "responded" =>
       /\ \A k \in Did("validate") :
             /\ k <= Len(DeclaredOrder)
             /\ log[k].what = DeclaredOrder[k]
             /\ \A l \in 1..(k - 1) : log[l].do = "validate" /\ log[l].value = <<>>
       /\ \A k \in Did("invoke") :
             /\ k = Len(DeclaredOrder) + 1
             /\ \A l \in 1..(k - 1) : log[l].do = "validate" /\ log[l].value = <<>>
             /\ [a \in DOMAIN log[k].value |-> log[k].value[a].name] = DeclaredOrder
             /\ Cardinality(Did("invoke")) = 1
       /\ \A k \in Did("validate") :
             log[k].value # <<>> =>
                /\ Did("invoke") = {}
                /\ Did("status") = {k + 1}
                /\ log[k + 1].value = 500
                /\ Cardinality(Did("send")) = 1
                /\ \A s \in Did("send") : s > k + 1 /\ log[s].value = <<[json |-> log[k].value]>>
       /\ \A k \in Did("status") :
             log[k].value # 500 =>
                /\ call.op = "method"
                /\ call.result.error.class = "ApiError"
                /\ log[k].value = call.result.error.status
                /\ \A s \in Did("send") : log[s].value = <<[json |-> call.result.error.body]>>
       /\ Cardinality(Did("send")) = 1

\* the body and the first parameter were accepted and the second parameter
\* refused: status 500 was set and the message sent
C28_Witness ==
    /\ pc = "responded"
    /\ Len(DeclaredOrder) = 3
    /\ Len(log) >= 5
    /\ log[1] = [do |-> "validate", what |-> <<"body">>, value |-> <<>>]
    /\ log[2].do = "validate" /\ log[2].value = <<>>
    /\ log[3].do = "validate" /\ log[3].value # <<>>
    /\ log[4] = [do |-> "status", what |-> <<>>, value |-> 500]
    /\ log[Len(log)].do = "send"

(***************************************************************************)
(* Properties of the text of a class file.                                 *)
(***************************************************************************)
\* the part occurs in the text, chunk for chunk
Occurs(part, t) ==
    \E i \in 1..(Len(t) - Len(part) + 1) : SubSeq(t, i, i + Len(part) - 1) = part

\* the text of a class file before its class declaration
ImportBlock(t) ==
    IF \E i \in DOMAIN t : t[i] = "export class "
    THEN SubSeq(t, 1, IndexOf(t, "export class ") - 1)
    ELSE <<>>

\* the class written last and the text of its file are in the state
ClientFileWritten ==
    /\ pc \in {"extracted", "written"}
    /\ mode = "client"
    /\ emitted.classes # <<>>

\* every path, every name and the default alias of the Import Set are in the block
BlockHolds(block, imp) ==
    \A k \in DOMAIN imp.files :
        /\ Occurs(<<" } from ", "\"">> \o imp.files[k].file \o <<"\"", ";">>, block)
        /\ \A n \in DOMAIN imp.files[k].named : Occurs(imp.files[k].named[n], block)
        /\ imp.files[k].def # <<>> => Occurs(<<"default as ">> \o imp.files[k].def, block)

\* C29: in client mode the import block of a written client file holds every
\* symbol that the emission of the operations of the class registered on the
\* Import Set of the file (BaseClient and ClientConfig always, UrlBuilder, the
\* model types and the validators where an operation needs them), although the
\* Import Set was appended to the builder while it was still empty.
C29_ImportBlockHoldsLateRegistrations ==
    ClientFileWritten =>
        LET class == emitted.classes[Len(emitted.classes)]
            block == ImportBlock(rendered)
        IN /\ block # <<>>
           /\ class.imports.files # <<>>
           /\ Occurs(<<"BaseClient">>, block)
           /\ Occurs(<<"ClientConfig">>, block)
           /\ BlockHolds(block, class.imports)

\* a client file whose operations registered UrlBuilder, a model type and a
\* validator, all of them in the import block
C29_Witness ==
    /\ ClientFileWritten
    /\ LET block == ImportBlock(rendered)
       IN /\ Occurs(<<"UrlBuilder">>, block)
          /\ Occurs(<<"testArray">>, block)
          /\ \E k \in DOMAIN emitted.classes[Len(emitted.classes)].imports.files :
                 /\ Occurs(<<"../", "model">>,
                           emitted.classes[Len(emitted.classes)].imports.files[k].file)
                 /\ Occurs(emitted.classes[Len(emitted.classes)].imports.files[k].file, block)

====
